---------------------------- MODULE Spec2Model ----------------------------
(***************************************************************************)
(* purgo-cli: configuration loading and merge (src/src/config.ts), the     *)
(* configuration cache (src/src/cache.ts), path deduplication and          *)
(* cleanProject (src/src/utils.ts).                                        *)
(*                                                                         *)
(* Conventions.  An optional value (a field that may be undefined) is a    *)
(* sequence of length 0 or 1: None is <<>>, Some(x) is <<x>>.  A path or   *)
(* key string is a sequence of one-character strings, so that              *)
(* concatenation, prefix tests and lengths are computed, not assumed.      *)
(* Opaque strings (glob fragments, hook commands) are natural numbers.     *)
(***************************************************************************)
EXTENDS Integers, Sequences, FiniteSets, TLC

VARIABLES
    mergeBase,      \* mergeConfigs: argument `base`
    mergeOverride,  \* mergeConfigs: argument `override`
    mergeResult,    \* mergeConfigs: returned configuration (None before the call)
    paths,          \* deduplicatePaths: argument `paths`
    deduped,        \* deduplicatePaths(paths) (None before the call)
    dedupedAgain,   \* deduplicatePaths(deduplicatePaths(paths)) (None before the call)
    cache,          \* ConfigCache.cache: Map from key string to CacheEntry
    now,            \* Date.now(), in milliseconds
    ticks,          \* number of clock advances so far (bounds the run)
    lastOp,         \* the most recent call on configCache and what it returned
    lastSet,        \* history: per key, the value and time of the latest set that
                    \* no later set, invalidate or clear on that key followed
                    \* (with the number of gets that hit it since)
    fs,             \* the configuration files on disk: absolute path -> content
    call,           \* the loadConfig invocations: id -> position and locals
    loadsLeft,      \* loadConfig invocations that may still start (bounds the run)
    run             \* the cleanProject invocation: position, locals and the calls
                    \* it made on its collaborators

vars == <<mergeBase, mergeOverride, mergeResult, paths, deduped, dedupedAgain,
          cache, now, ticks, lastOp, lastSet, fs, call, loadsLeft, run>>

mergeVars == <<mergeBase, mergeOverride, mergeResult>>
dedupVars == <<paths, deduped, dedupedAgain>>
cacheVars == <<cache, now, ticks, lastOp, lastSet>>
loadVars == <<fs, call, loadsLeft>>
cleanVars == <<run>>

-----------------------------------------------------------------------------
(* Optional values *)

None == <<>>
Some(x) == <<x>>
Opt(S) == {None} \cup {Some(x) : x \in S}

\* JavaScript `a ?? b` on optional values
Coalesce(a, b) == IF a # None THEN a ELSE b

\* all sequences over S of length at most n
SeqUpTo(S, n) == UNION {[1..k -> S] : k \in 0..n}

-----------------------------------------------------------------------------
(* Bounds *)

NumWords == 2       \* distinct opaque strings (glob fragments, hook commands)
MaxPathLen == 2     \* characters in a path given to deduplicatePaths
MaxPaths == 2       \* entries in the list given to deduplicatePaths
MaxTicks == 3       \* clock advances in one run
MaxHits == 2        \* hits counted per stored value (the count stops there)
MaxExtends == 2     \* entries in one `extends` array
MaxLoads == 2       \* loadConfig invocations in one run

Words == 1..NumWords

-----------------------------------------------------------------------------
(* Configuration: src/src/config.ts *)

\* z.object({ preClean, postClean }) with both optional
HooksOver(pre, post) == [preClean : Opt(pre), postClean : Opt(post)]

\* a configuration with every field undefined: `{}`
EmptyConfig == [targets |-> None, ignore |-> None, extends |-> None, hooks |-> None]

\* `extends` is a string or an array of strings: isArray tells which
ExtendsString(p) == [isArray |-> FALSE, items |-> <<p>>]
ExtendsArray(ps) == [isArray |-> TRUE, items |-> ps]

mergedHooksShallow(base, override) == Coalesce(override.hooks, base.hooks)

mergedHooks(base, override) ==
    IF override.hooks = None /\ base.hooks = None THEN None
    ELSE IF override.hooks = None THEN base.hooks
    ELSE IF base.hooks = None THEN override.hooks
    ELSE Some([preClean  |-> Coalesce(override.hooks[1].preClean, base.hooks[1].preClean),
               postClean |-> Coalesce(override.hooks[1].postClean, base.hooks[1].postClean)])

mergeConfigsConcat(base, override) ==
    [targets |-> IF override.targets # None /\ base.targets # None
                 THEN Some(base.targets[1] \o override.targets[1])
                 ELSE Coalesce(override.targets, base.targets),
     ignore  |-> Coalesce(override.ignore, base.ignore),
     extends |-> Coalesce(override.extends, base.extends),
     hooks   |-> mergedHooks(base, override)]

mergeConfigs(base, override) ==
    [targets |-> Coalesce(override.targets, base.targets),
     ignore  |-> Coalesce(override.ignore, base.ignore),
     extends |-> Coalesce(override.extends, base.extends),
     hooks   |-> mergedHooks(base, override)]

-----------------------------------------------------------------------------
(* Path deduplication: src/src/utils.ts *)

PathStrings == SeqUpTo({"a", "/", "\\"}, MaxPathLen)

\* p.replace(/\\/g, "/")
normalizePath(p) == [i \in 1..Len(p) |-> IF p[i] = "\\" THEN "/" ELSE p[i]]

\* String.prototype.startsWith
startsWith(p, q) == Len(q) <= Len(p) /\ SubSeq(p, 1, Len(q)) = q

\* [...paths].map(normalizePath)
normalizeAll(ps) == [i \in 1..Len(ps) |-> normalizePath(ps[i])]

RECURSIVE insertBeforeTies(_, _)
insertBeforeTies(x, s) ==
    IF s = <<>> THEN <<x>>
    ELSE IF Len(s[Len(s)]) - Len(x) < 0 THEN Append(s, x)
    ELSE Append(insertBeforeTies(x, SubSeq(s, 1, Len(s) - 1)), s[Len(s)])

\* insert x behind every element that does not compare greater: a stable sort step
RECURSIVE insertByLength(_, _)
insertByLength(x, s) ==
    IF s = <<>> THEN <<x>>
    ELSE IF Len(s[Len(s)]) - Len(x) <= 0 THEN Append(s, x)
    ELSE Append(insertByLength(x, SubSeq(s, 1, Len(s) - 1)), s[Len(s)])

RECURSIVE sortTiesReversed(_)
sortTiesReversed(s) ==
    IF s = <<>> THEN <<>>
    ELSE insertBeforeTies(s[Len(s)], sortTiesReversed(SubSeq(s, 1, Len(s) - 1)))

sortOmitted(s) == s

\* Array.prototype.sort((a, b) => a.length - b.length): a stable sort (ECMAScript 2019)
RECURSIVE sortByLength(_)
sortByLength(s) ==
    IF s = <<>> THEN <<>>
    ELSE insertByLength(s[Len(s)], sortByLength(SubSeq(s, 1, Len(s) - 1)))

\* kept.some((k) => p === k || p.startsWith(`${k}/`))
coveredRawPrefix(kept, p) ==
    \E i \in 1..Len(kept) : p = kept[i] \/ startsWith(p, kept[i])

coveredEqualOnly(kept, p) ==
    \E i \in 1..Len(kept) : p = kept[i]

covered(kept, p) ==
    \E i \in 1..Len(kept) : p = kept[i] \/ startsWith(p, kept[i] \o <<"/">>)

\* for (const p of sorted) if (!kept.some(...)) kept.push(p)
RECURSIVE keepLoop(_, _)
keepLoop(sorted, kept) ==
    IF sorted = <<>> THEN kept
    ELSE keepLoop(Tail(sorted),
                  IF covered(kept, Head(sorted)) THEN kept ELSE Append(kept, Head(sorted)))

deduplicatePaths(ps) == keepLoop(sortByLength(normalizeAll(ps)), <<>>)


-----------------------------------------------------------------------------
(* Configuration cache: src/src/cache.ts *)

\* private readonly TTL = 5 * 60 * 1000
TTL == 300000

\* a Map with no entries
EmptyMap == [k \in {} |-> None]

\* Map.prototype.set and Map.prototype.delete
MapSet(m, k, v) == [x \in DOMAIN m \cup {k} |-> IF x = k THEN v ELSE m[x]]
MapDelete(m, k) == [x \in DOMAIN m \ {k} |-> m[x]]

\* `${projectRoot}::${globalConfigPath || "none"}`: an undefined or empty
\* globalConfigPath is falsy
getCacheKey(projectRoot, globalConfigPath) ==
    projectRoot \o <<":", ":">> \o
        (IF globalConfigPath = None \/ globalConfigPath[1] = <<>>
         THEN <<"n", "o", "n", "e">>
         ELSE globalConfigPath[1])

isValidInclusive(entry, t) == t - entry.timestamp <= TTL

\* Date.now() - entry.timestamp < this.TTL
isValid(entry, t) == t - entry.timestamp < TTL

\* ConfigCache.get: the returned LoadedConfig (None for null) ...
cacheGet(m, t, projectRoot, globalConfigPath) ==
    LET key == getCacheKey(projectRoot, globalConfigPath) IN
    IF key \notin DOMAIN m THEN None
    ELSE IF ~isValid(m[key], t) THEN None
    ELSE Some(m[key].config)

cacheAfterGetKeepsExpired(m, t, projectRoot, globalConfigPath) == m

cacheAfterGetRefreshes(m, t, projectRoot, globalConfigPath) ==
    LET key == getCacheKey(projectRoot, globalConfigPath) IN
    IF key \notin DOMAIN m THEN m
    ELSE IF ~isValid(m[key], t) THEN MapDelete(m, key)
    ELSE [m EXCEPT ![key].timestamp = t]

\* ... and the map it leaves: an expired entry is deleted
cacheAfterGet(m, t, projectRoot, globalConfigPath) ==
    LET key == getCacheKey(projectRoot, globalConfigPath) IN
    IF key \in DOMAIN m /\ ~isValid(m[key], t) THEN MapDelete(m, key) ELSE m

cacheAfterSetKeepsExisting(m, t, projectRoot, config, globalConfigPath) ==
    IF getCacheKey(projectRoot, globalConfigPath) \in DOMAIN m THEN m
    ELSE MapSet(m, getCacheKey(projectRoot, globalConfigPath),
                [config |-> config, timestamp |-> t])

\* ConfigCache.set
cacheAfterSet(m, t, projectRoot, config, globalConfigPath) ==
    MapSet(m, getCacheKey(projectRoot, globalConfigPath),
           [config |-> config, timestamp |-> t])

cacheAfterInvalidateClearsAll(m, projectRoot, globalConfigPath) == EmptyMap

\* ConfigCache.invalidate
cacheAfterInvalidate(m, projectRoot, globalConfigPath) ==
    MapDelete(m, getCacheKey(projectRoot, globalConfigPath))

cacheAfterCleanupKeepsAll(m, t) == m

\* ConfigCache.cleanup
cacheAfterCleanup(m, t) == [k \in {x \in DOMAIN m : isValid(m[x], t)} |-> m[k]]

\* ConfigCache.stats: the returned object, given the map cleanup left
cacheStats(m) == [size |-> Cardinality(DOMAIN m), entries |-> Cardinality(DOMAIN m)]

-----------------------------------------------------------------------------
(* Paths: node:path resolve on absolute POSIX paths *)

IsAbsolute(p) == p # <<>> /\ p[1] = "/"

\* the segments of s between separators
RECURSIVE splitFrom(_, _, _)
splitFrom(s, i, cur) ==
    IF i > Len(s) THEN <<cur>>
    ELSE IF s[i] = "/" THEN <<cur>> \o splitFrom(s, i + 1, <<>>)
    ELSE splitFrom(s, i + 1, Append(cur, s[i]))

\* drop "" and ".", let ".." remove the segment before it
RECURSIVE normalizeSegments(_, _)
normalizeSegments(segs, out) ==
    IF segs = <<>> THEN out
    ELSE LET h == Head(segs) IN
         normalizeSegments(Tail(segs),
             IF h = <<>> \/ h = <<".">> THEN out
             ELSE IF h = <<".", ".">>
                  THEN (IF out = <<>> THEN out ELSE SubSeq(out, 1, Len(out) - 1))
                  ELSE Append(out, h))

RECURSIVE joinSegments(_)
joinSegments(segs) ==
    IF segs = <<>> THEN <<>> ELSE <<"/">> \o Head(segs) \o joinSegments(Tail(segs))

\* resolve(cwd, p) for an absolute cwd
resolve(cwd, p) ==
    LET whole == IF IsAbsolute(p) THEN p ELSE cwd \o <<"/">> \o p
        segs == normalizeSegments(splitFrom(whole, 1, <<>>), <<>>)
    IN IF segs = <<>> THEN <<"/">> ELSE joinSegments(segs)

\* resolve(path, '..')
dirname(path) == resolve(path, <<".", ".">>)

-----------------------------------------------------------------------------
(* Files and the cosmiconfig explorer, as config.ts uses them *)

\* A file is "ok" (its content passes configSchema), "invalid" (an object that
\* fails configSchema, such as { targets: 123 }), "empty" (cosmiconfig reports
\* isEmpty with an undefined config) or "unloadable" (load returns null).  A
\* path outside DOMAIN files does not exist.
FileOk(config) == [status |-> "ok", config |-> config]

existsSync(files, path) == path \in DOMAIN files

\* explorer.load(path): the CosmiconfigResult, None for null
explorerLoad(files, path) ==
    IF path \in DOMAIN files /\ files[path].status # "unloadable"
    THEN Some([content |-> files[path], filepath |-> path])
    ELSE None

\* the file name explorer.search looks for in each directory
RcName == <<".", "r", "c">>

\* explorer.search(cwd): the first directory from cwd upwards that holds a
\* loadable configuration file
RECURSIVE explorerSearch(_, _)
explorerSearch(files, dir) ==
    LET found == explorerLoad(files, resolve(dir, RcName)) IN
    IF found # None THEN found
    ELSE IF dir = <<"/">> THEN None
    ELSE explorerSearch(files, dirname(dir))

\* configSchema.safeParse(result.config).success
safeParseOk(content) == content.status = "ok"

\* result.isEmpty, and the falsiness of result.config
isEmpty(content) == content.status = "empty"

\* loadRawConfig(cwd): "null" | "throw" | "config"
loadRawConfig(files, cwd) ==
    LET result == explorerSearch(files, cwd) IN
    IF result = None \/ isEmpty(result[1].content) THEN [outcome |-> "null", result |-> result]
    ELSE IF ~safeParseOk(result[1].content) THEN [outcome |-> "throw", result |-> result]
    ELSE [outcome |-> "config", result |-> result]

-----------------------------------------------------------------------------
(* resolveExtends and loadConfig: src/src/config.ts *)

\* config.extends ? (Array.isArray(config.extends) ? config.extends : [config.extends]) : []
extendList(config) ==
    IF config.extends = None THEN <<>>
    ELSE IF config.extends[1].isArray THEN config.extends[1].items
    ELSE IF config.extends[1].items[1] = <<>> THEN <<>>
    ELSE config.extends[1].items

FrameLaterEntriesFirst(config, cwd) ==
    [merged |-> config,
     rest |-> [i \in 1..Len(extendList(config)) |->
                  extendList(config)[Len(extendList(config)) + 1 - i]],
     cwd |-> cwd]

\* one activation of resolveExtends: merged, the entries of extendList still to
\* process, and cwd
Frame(config, cwd) == [merged |-> config, rest |-> extendList(config), cwd |-> cwd]

\* resolve(projectRoot, 'package.json')
PackageJson == <<"p", "a", "c", "k", "a", "g", "e", ".", "j", "s", "o", "n">>

LoadedConfig(config, filepath) == [config |-> config, filepath |-> filepath]

RECURSIVE reduceFromEarlierWins(_, _)
reduceFromEarlierWins(configs, acc) ==
    IF configs = <<>> THEN acc
    ELSE reduceFromEarlierWins(Tail(configs),
             LoadedConfig(mergeConfigs(Head(configs).config, acc.config),
                          Coalesce(Head(configs).filepath, acc.filepath)))

RECURSIVE reduceFromFilepathErased(_, _)
reduceFromFilepathErased(configs, acc) ==
    IF configs = <<>> THEN acc
    ELSE reduceFromFilepathErased(Tail(configs),
             LoadedConfig(mergeConfigs(acc.config, Head(configs).config),
                          Head(configs).filepath))

\* configs.reduce(..., { config: {}, filepath: undefined })
RECURSIVE reduceFrom(_, _)
reduceFrom(configs, acc) ==
    IF configs = <<>> THEN acc
    ELSE reduceFrom(Tail(configs),
             LoadedConfig(mergeConfigs(acc.config, Head(configs).config),
                          Coalesce(Head(configs).filepath, acc.filepath)))

reduceConfigs(configs) == reduceFrom(configs, LoadedConfig(EmptyConfig, None))

\* a loadConfig invocation that has not started
IdleCall ==
    [pc |-> "idle", projectRoot |-> <<>>, globalConfigPath |-> None,
     configs |-> <<>>, origins |-> <<>>, source |-> "none",
     stack |-> <<>>, visited |-> {}, loads |-> <<>>, result |-> None, error |-> None,
     fromCache |-> FALSE, cacheBefore |-> EmptyMap, startedAt |-> 0,
     sourcesChanged |-> FALSE]

\* throw new Error(...): the invocation rejects
throw(c, kind, path) ==
    [c EXCEPT !.pc = "failed", !.stack = <<>>,
              !.error = Some([kind |-> kind, path |-> path, source |-> c.source])]

beginExtendsKeepsVisited(c, source, config, cwd) ==
    [c EXCEPT !.pc = "extends", !.source = source,
              !.stack = <<Frame(config, cwd)>>, !.loads = <<>>]

\* the top-level call resolveExtends(config, cwd) of one source: visited = new Set()
beginExtends(c, source, config, cwd) ==
    [c EXCEPT !.pc = "extends", !.source = source,
              !.stack = <<Frame(config, cwd)>>, !.visited = {}, !.loads = <<>>]

\* lines 159-169: fold the candidates, and return (the caller stores the result)
finish(c) ==
    [c EXCEPT !.pc = "done", !.stack = <<>>, !.source = "none",
              !.result = Some(reduceConfigs(c.configs))]

loadStartSkipsCache(c, m, t, projectRoot, globalConfigPath) ==
    [IdleCall EXCEPT !.projectRoot = projectRoot, !.globalConfigPath = globalConfigPath,
                     !.cacheBefore = m, !.startedAt = t, !.pc = "global"]

\* lines 116-119 and 121: the cache lookup that starts an invocation
loadStart(c, m, t, projectRoot, globalConfigPath) ==
    LET cached == cacheGet(m, t, projectRoot, globalConfigPath)
        fresh == [IdleCall EXCEPT !.projectRoot = projectRoot,
                                  !.globalConfigPath = globalConfigPath,
                                  !.cacheBefore = m, !.startedAt = t]
    IN IF cached # None
       THEN [fresh EXCEPT !.pc = "done", !.result = cached, !.fromCache = TRUE]
       ELSE [fresh EXCEPT !.pc = "global"]

\* lines 123-136: the global source
loadGlobal(c, files) ==
    LET c1 == [c EXCEPT !.source = "global"] IN
    IF c.globalConfigPath # None /\ c.globalConfigPath[1] # <<>>
       /\ existsSync(files, c.globalConfigPath[1])
    THEN LET globalResult == explorerLoad(files, c.globalConfigPath[1]) IN
         IF globalResult = None THEN [c EXCEPT !.pc = "workspace"]
         ELSE IF ~safeParseOk(globalResult[1].content)
              THEN throw(c1, "invalidGlobal", c.globalConfigPath[1])
              ELSE beginExtends(c, "global", globalResult[1].content.config,
                                dirname(c.globalConfigPath[1]))
    ELSE [c EXCEPT !.pc = "workspace"]

\* lines 138-142: the workspace source
loadWorkspace(c, files) ==
    LET raw == loadRawConfig(files, c.projectRoot)
        c1 == [c EXCEPT !.source = "workspace"]
    IN IF raw.outcome = "null" THEN [c EXCEPT !.pc = "package"]
       ELSE IF raw.outcome = "throw" THEN throw(c1, "invalidWorkspace", raw.result[1].filepath)
       ELSE beginExtends(c, "workspace", raw.result[1].content.config, c.projectRoot)

\* lines 144-157, and 159-169 when the manifest holds no configuration
loadPackage(c, files) ==
    LET path == resolve(c.projectRoot, PackageJson)
        configFromPackageJson == explorerLoad(files, path)
        c1 == [c EXCEPT !.source = "package"]
    IN IF configFromPackageJson # None /\ ~isEmpty(configFromPackageJson[1].content)
       THEN IF ~safeParseOk(configFromPackageJson[1].content)
            THEN throw(c1, "invalidPackage", path)
            ELSE beginExtends(c, "package", configFromPackageJson[1].content.config,
                              c.projectRoot)
       ELSE finish(c)

visitedNotRecorded(c, absolutePath) == {}

\* visited.add(absolutePath): one set for the whole top-level call
visitedAfter(c, absolutePath) == c.visited \cup {absolutePath}

extendsEnterSkipsMissing(c, files) ==
    LET depth == Len(c.stack)
        top == c.stack[depth]
        absolutePath == resolve(top.cwd, Head(top.rest))
        seen == [c EXCEPT !.visited = c.visited \cup {absolutePath}]
        read == [seen EXCEPT !.loads = Append(c.loads, absolutePath)]
        result == explorerLoad(files, absolutePath)
    IN IF absolutePath \in c.visited THEN throw(c, "cycle", absolutePath)
       ELSE IF ~existsSync(files, absolutePath)
            THEN [seen EXCEPT !.stack[depth].rest = Tail(top.rest)]
       ELSE IF result = None THEN throw(read, "couldNotLoad", absolutePath)
       ELSE IF ~safeParseOk(result[1].content) THEN throw(read, "invalidExtends", absolutePath)
       ELSE [read EXCEPT !.stack =
                Append([c.stack EXCEPT ![depth].rest = Tail(top.rest)],
                       Frame(result[1].content.config, dirname(absolutePath)))]

\* lines 71-94: one iteration of the loop over extendList once absolutePath is
\* known, up to the recursive call; loads lists the paths given to
\* explorer.load in this top-level call
extendsEnterAt(c, files, absolutePath) ==
    LET depth == Len(c.stack)
        top == c.stack[depth]
        seen == [c EXCEPT !.visited = visitedAfter(c, absolutePath)]
        read == [seen EXCEPT !.loads = Append(c.loads, absolutePath)]
        result == explorerLoad(files, absolutePath)
    IN IF absolutePath \in c.visited THEN throw(c, "cycle", absolutePath)
       ELSE IF ~existsSync(files, absolutePath) THEN throw(seen, "notFound", absolutePath)
       ELSE IF result = None THEN throw(read, "couldNotLoad", absolutePath)
       ELSE IF ~safeParseOk(result[1].content) THEN throw(read, "invalidExtends", absolutePath)
       ELSE [read EXCEPT !.stack =
                Append([c.stack EXCEPT ![depth].rest = Tail(top.rest)],
                       Frame(result[1].content.config, dirname(absolutePath)))]

extendsEnterSpinsOnRevisit(c, files) ==
    LET top == c.stack[Len(c.stack)] IN
    CHOOSE next \in {IF absolutePath \in c.visited THEN c
                     ELSE extendsEnterAt(c, files, absolutePath) :
                        absolutePath \in {resolve(top.cwd, Head(top.rest))}} : TRUE

\* lines 69-70: the next entry of extendList and its absolute path, computed once
extendsEnter(c, files) ==
    LET top == c.stack[Len(c.stack)] IN
    CHOOSE next \in {extendsEnterAt(c, files, absolutePath) :
                        absolutePath \in {resolve(top.cwd, Head(top.rest))}} : TRUE

\* the filepath a source's candidate carries: only the global one has a filepath
candidateFilepath(c) == IF c.source = "global" THEN c.globalConfigPath ELSE None

mergeIntoCallerBaseWins(resolvedExtended, merged) == mergeConfigs(merged, resolvedExtended)

\* line 95: merged = mergeConfigs(resolvedExtended, merged)
mergeIntoCaller(resolvedExtended, merged) == mergeConfigs(resolvedExtended, merged)

visitedAtReturnForgets(c) == {}

\* line 94: the recursive call is given the caller's own Set, so what it added
\* is still there when it returns
visitedAtReturn(c) == c.visited

\* `return merged`: line 95 in the caller when the call was recursive; lines 134,
\* 141 and 156 (and then 159-169) when it was a top-level call
extendsReturn(c) ==
    LET depth == Len(c.stack)
        top == c.stack[depth]
    IN IF depth > 1
       THEN [c EXCEPT !.visited = visitedAtReturn(c),
                      !.stack =
                [SubSeq(c.stack, 1, depth - 1) EXCEPT ![depth - 1].merged =
                    mergeIntoCaller(top.merged, c.stack[depth - 1].merged)]]
       ELSE LET pushed == [c EXCEPT !.stack = <<>>,
                                    !.configs = Append(c.configs,
                                        LoadedConfig(top.merged, candidateFilepath(c))),
                                    !.origins = Append(c.origins, c.source)]
            IN IF c.source = "global" THEN [pushed EXCEPT !.pc = "workspace"]
               ELSE IF c.source = "workspace" THEN [pushed EXCEPT !.pc = "package"]
               ELSE finish(pushed)

\* line 167: configCache.set(projectRoot, final, globalConfigPath) once the fold is done
cacheAfterStep(m, t, c) ==
    IF c.pc = "done"
    THEN cacheAfterSet(m, t, c.projectRoot, c.result[1], c.globalConfigPath)
    ELSE m

-----------------------------------------------------------------------------
(* cleanProject: src/src/utils.ts, lines 262-470 *)

\* deleteWithRetry: maxRetries = 3
maxRetries == 3

\* "node_modules", "dist", "build", "coverage", ".turbo", ".next", ".svelte-kit"
DEFAULT_TARGETS == <<11, 12, 13, 14, 15, 16, 17>>

\* one step of a loadConfig invocation, and the invocation run to its end:
\* `await loadConfig(...)`
loadStep(c, files) ==
    CASE c.pc = "global" -> loadGlobal(c, files)
      [] c.pc = "workspace" -> loadWorkspace(c, files)
      [] c.pc = "package" -> loadPackage(c, files)
      [] OTHER -> IF c.stack[Len(c.stack)].rest # <<>> THEN extendsEnter(c, files)
                  ELSE extendsReturn(c)

RECURSIVE loadToEnd(_, _)
loadToEnd(c, files) ==
    IF c.pc \in {"done", "failed"} THEN c ELSE loadToEnd(loadStep(c, files), files)

\* the cache after the whole invocation: the lookup, and the store unless the
\* lookup hit or the load failed
cacheAfterLoad(m, t, started, ended) ==
    IF started.pc = "done" THEN cacheAfterGet(m, t, started.projectRoot, started.globalConfigPath)
    ELSE cacheAfterStep(cacheAfterGet(m, t, started.projectRoot, started.globalConfigPath),
                        t, ended)

\* a call cleanProject makes on a collaborator, and how the collaborator answered
Event(kind, arg, outcome) == [kind |-> kind, arg |-> arg, outcome |-> outcome]

\* detectPackageManager: bun.lockb or bun.lock, then pnpm-lock.yaml, then
\* yarn.lock, then package-lock.json, else npm
detectPackageManager(locks) ==
    IF "bun.lockb" \in locks \/ "bun.lock" \in locks THEN "bun"
    ELSE IF "pnpm-lock.yaml" \in locks THEN "pnpm"
    ELSE IF "yarn.lock" \in locks THEN "yarn"
    ELSE "npm"

\* a cleanProject invocation that has not started
IdleRun ==
    [pc |-> "idle", dryRun |-> FALSE, reinstall |-> FALSE, force |-> FALSE,
     cliTargets |-> None, config |-> EmptyConfig, topLevelPaths |-> <<>>,
     response |-> None,
     jobs |-> <<>>, deletedCount |-> 0, errorCount |-> 0, errorItems |-> <<>>,
     summary |-> None, log |-> <<>>, outcome |-> "none"]

\* `return` and a rejection of the promise cleanProject returns
returned(r, outcome) == [r EXCEPT !.pc = "returned", !.outcome = outcome]
rejected(r, outcome) == [r EXCEPT !.pc = "rejected", !.outcome = outcome]

\* lines 263-283: the options are read and the configuration is loaded
cleanStart(r, options, loaded) ==
    LET r1 == [IdleRun EXCEPT !.dryRun = options.dryRun, !.reinstall = options.reinstall,
                              !.force = options.force, !.cliTargets = options.targets,
                              !.log = <<Event("loadConfig", <<>>, loaded.pc)>>]
    IN IF loaded.pc = "failed" THEN rejected(r1, "loadConfig")
       ELSE [r1 EXCEPT !.pc = "preClean", !.config = loaded.result[1].config]

executeHookSwallowsFailure(r, hookCommand, hookName, outcome, next) ==
    IF hookCommand = None THEN [r EXCEPT !.pc = next]
    ELSE [r EXCEPT !.log = Append(r.log, Event("hook", hookName, outcome)), !.pc = next]

\* executeHook(hookCommand, hookName, cwd): nothing without a command; the
\* command run in a shell otherwise, and a throw when it fails
executeHook(r, hookCommand, hookName, outcome, next) ==
    IF hookCommand = None THEN [r EXCEPT !.pc = next]
    ELSE LET r1 == [r EXCEPT !.log = Append(r.log, Event("hook", hookName, outcome))] IN
         IF outcome = "ok" THEN [r1 EXCEPT !.pc = next] ELSE rejected(r1, hookName)

\* config.hooks?.preClean and config.hooks?.postClean
hookCommand(config, hookName) ==
    IF config.hooks = None THEN None ELSE config.hooks[1][hookName]

\* line 285
cleanPreHook(r, outcome) ==
    executeHook(r, hookCommand(r.config, "preClean"), "preClean", outcome, "search")

\* line 287: cliTargets ?? config.targets ?? DEFAULT_TARGETS
targetsOf(r) == Coalesce(r.cliTargets, Coalesce(r.config.targets, Some(DEFAULT_TARGETS)))[1]

\* lines 395-416 and 424-437: the deletions still to finish; in the sequential
\* branch an empty path is skipped
jobsFor(tops) ==
    [i \in 1..Len(tops) |->
        [attempt |-> 0,
         done |-> IF Len(tops) > 5 /\ tops[i] = <<>> THEN "skipped" ELSE "no"]]

\* lines 287-311: the search, the deduplication and the early return
cleanSearch(r, pathsToDelete) ==
    LET r1 == [r EXCEPT !.log = Append(r.log, Event("glob", targetsOf(r), "ok")),
                        !.topLevelPaths = deduplicatePaths(pathsToDelete)]
    IN IF Len(r1.topLevelPaths) = 0 THEN returned(r1, "nothingToClean")
       ELSE [r1 EXCEPT !.pc = "sizes"]

cleanSizesIgnoresDryRun(r) ==
    LET r1 == [r EXCEPT !.log = Append(r.log, Event("getFolderSize", Len(r.topLevelPaths), "ok"))]
    IN IF ~r.force
       THEN [r1 EXCEPT !.pc = "prompt", !.log = Append(r1.log, Event("prompts", <<>>, "shown"))]
       ELSE [r1 EXCEPT !.pc = "delete", !.jobs = jobsFor(r.topLevelPaths)]

\* lines 313-350: the sizes, the dry-run return, and the prompt unless forced
cleanSizes(r) ==
    LET r1 == [r EXCEPT !.log = Append(r.log, Event("getFolderSize", Len(r.topLevelPaths), "ok"))]
    IN IF r.dryRun THEN returned(r1, "dryRun")
       ELSE IF ~r.force
            THEN [r1 EXCEPT !.pc = "prompt", !.log = Append(r1.log, Event("prompts", <<>>, "shown"))]
            ELSE [r1 EXCEPT !.pc = "delete", !.jobs = jobsFor(r.topLevelPaths)]

cleanAnswerIgnored(r, confirm) ==
    [r EXCEPT !.response = Some(confirm), !.pc = "delete", !.jobs = jobsFor(r.topLevelPaths)]

\* lines 337-347: the answer to the prompt, response.confirm
cleanAnswer(r, confirm) ==
    LET r1 == [r EXCEPT !.response = Some(confirm)] IN
    IF ~confirm THEN returned(r1, "cancelled")
    ELSE [r1 EXCEPT !.pc = "delete", !.jobs = jobsFor(r.topLevelPaths)]

cleanSummaryAfterFirst(r) ==
    IF \E i \in 1..Len(r.jobs) : r.jobs[i].done # "no"
    THEN [r EXCEPT !.pc = "postClean",
                   !.summary = Some([deletedCount |-> r.deletedCount,
                                     errorCount |-> r.errorCount,
                                     errors |-> r.errorItems])]
    ELSE r

\* lines 442-454: the summary, once every deletion has finished
cleanSummary(r) ==
    IF \A i \in 1..Len(r.jobs) : r.jobs[i].done # "no"
    THEN [r EXCEPT !.pc = "postClean",
                   !.summary = Some([deletedCount |-> r.deletedCount,
                                     errorCount |-> r.errorCount,
                                     errors |-> r.errorItems])]
    ELSE r

deleteAttemptRetriesAnyError(r, i, outcome) ==
    LET path == r.topLevelPaths[i]
        r1 == [r EXCEPT !.log = Append(r.log, Event("rm", path, outcome))]
    IN cleanSummary(
         IF outcome = "ok"
         THEN [r1 EXCEPT !.jobs[i].done = "ok", !.deletedCount = r.deletedCount + 1]
         ELSE IF r.jobs[i].attempt < maxRetries
              THEN [r1 EXCEPT !.jobs[i].attempt = r.jobs[i].attempt + 1]
              ELSE [r1 EXCEPT !.jobs[i].done = "failed", !.errorCount = r.errorCount + 1,
                              !.errorItems = Append(r.errorItems, path)])

\* deleteWithRetry, one attempt on topLevelPaths[i] (lines 362-391), and the
\* caller's count when it reports (lines 404-409, 430-435); outcome is "ok",
\* "permission" (EBUSY, EPERM, EACCES) or "other"
deleteAttempt(r, i, outcome) ==
    LET path == r.topLevelPaths[i]
        r1 == [r EXCEPT !.log = Append(r.log, Event("rm", path, outcome))]
    IN cleanSummary(
         IF outcome = "ok"
         THEN [r1 EXCEPT !.jobs[i].done = "ok", !.deletedCount = r.deletedCount + 1]
         ELSE IF outcome = "permission" /\ r.jobs[i].attempt < maxRetries
              THEN [r1 EXCEPT !.jobs[i].attempt = r.jobs[i].attempt + 1]
              ELSE [r1 EXCEPT !.jobs[i].done = "failed", !.errorCount = r.errorCount + 1,
                              !.errorItems = Append(r.errorItems, path)])

\* the deletions that may make their next attempt: the first unfinished one in
\* the sequential branch (more than 5 paths), any unfinished one in the
\* parallel branch
attemptable(r) ==
    LET open == {i \in 1..Len(r.jobs) : r.jobs[i].done = "no"} IN
    IF Len(r.topLevelPaths) > 5
    THEN {i \in open : \A j \in open : i <= j}
    ELSE open

\* line 454
cleanPostHook(r, outcome) ==
    executeHook(r, hookCommand(r.config, "postClean"), "postClean", outcome, "reinstall")

reinstallsDespiteErrors(r) == r.reinstall /\ ~r.dryRun

\* line 456: reinstall && !dryRun && errorCount === 0
reinstalls(r) == r.reinstall /\ ~r.dryRun /\ r.errorCount = 0

\* lines 456-469: the reinstall, whose failure is caught and shown
cleanReinstall(r, locks, outcome) ==
    IF reinstalls(r)
    THEN returned([r EXCEPT !.log = Append(r.log,
                                 Event("install", detectPackageManager(locks), outcome))],
                  "finished")
    ELSE returned(r, "finished")

-----------------------------------------------------------------------------
(* Specification of mergeConfigs on all pairs of configurations *)

MergeConfigs ==
    [targets : Opt(SeqUpTo(Words, 1)),
     ignore  : Opt(SeqUpTo({1}, 1)),
     extends : Opt({ExtendsString(<<"e">>), ExtendsArray(<<<<"e">>>>)}),
     hooks   : Opt(HooksOver(Words, {1}))]

InitDedupIdle == paths = <<>> /\ deduped = None /\ dedupedAgain = None
InitMergeIdle == mergeBase = EmptyConfig /\ mergeOverride = EmptyConfig /\ mergeResult = None
InitLoadIdle == fs = EmptyMap /\ call = EmptyMap /\ loadsLeft = 0
InitCleanIdle == run = IdleRun

\* the effect of a get on the cache history: a hit is counted, up to MaxHits
lastSetAfterGet(ls, m, t, projectRoot, globalConfigPath) ==
    LET key == getCacheKey(projectRoot, globalConfigPath) IN
    IF cacheGet(m, t, projectRoot, globalConfigPath) # None /\ key \in DOMAIN ls
          /\ ls[key].hits < MaxHits
    THEN [ls EXCEPT ![key].hits = @ + 1]
    ELSE ls

\* a call on configCache as lastOp records it
OpRecord(op, key, result, size) == [op |-> op, key |-> key, result |-> result, size |-> size]

\* a call made through the configCache API: also its (projectRoot,
\* globalConfigPath) arguments and the map as it was when the call was made
ApiCall(op, pair, key, result, before) ==
    [op |-> op, key |-> key, result |-> result, size |-> 0, pair |-> pair, before |-> before]

\* the state after `new ConfigCache()`
InitCache ==
    /\ cache = EmptyMap
    /\ now = 0
    /\ ticks = 0
    /\ lastOp = OpRecord("new", <<>>, None, 0)
    /\ lastSet = EmptyMap

InitMerge ==
    /\ mergeBase \in MergeConfigs
    /\ mergeOverride \in MergeConfigs
    /\ mergeResult = None
    /\ InitDedupIdle
    /\ InitCache
    /\ InitLoadIdle
    /\ InitCleanIdle

Merge ==
    /\ mergeResult = None
    /\ mergeResult' = Some(mergeConfigs(mergeBase, mergeOverride))
    /\ UNCHANGED <<mergeBase, mergeOverride, dedupVars, cacheVars, loadVars, cleanVars>>

NextMerge == Merge

SpecMerge == InitMerge /\ [][NextMerge]_vars

-----------------------------------------------------------------------------
(* Specification of deduplicatePaths on all bounded path lists *)

InitDedup ==
    /\ paths \in SeqUpTo(PathStrings, MaxPaths)
    /\ deduped = None
    /\ dedupedAgain = None
    /\ InitMergeIdle
    /\ InitCache
    /\ InitLoadIdle
    /\ InitCleanIdle

Dedup ==
    /\ deduped = None
    /\ deduped' = Some(deduplicatePaths(paths))
    /\ UNCHANGED <<paths, dedupedAgain, mergeVars, cacheVars, loadVars, cleanVars>>

DedupAgain ==
    /\ deduped # None
    /\ dedupedAgain = None
    /\ dedupedAgain' = Some(deduplicatePaths(deduped[1]))
    /\ UNCHANGED <<paths, deduped, mergeVars, cacheVars, loadVars, cleanVars>>

NextDedup == Dedup \/ DedupAgain

SpecDedup == InitDedup /\ [][NextDedup]_vars

-----------------------------------------------------------------------------
(* Specification of the configCache API under an advancing clock *)

\* the (projectRoot, globalConfigPath) pairs the calls use
CachePairs ==
    {<<<<"/", "p">>, None>>, <<<<"/", "p">>, Some(<<"/", "g">>)>>,
     <<<<"/", "p">>, Some(<<"n", "o", "n", "e">>)>>}

InitCacheApi ==
    InitMergeIdle /\ InitDedupIdle /\ InitCache /\ InitLoadIdle /\ InitCleanIdle

\* the clock advances by one millisecond or by one millisecond less than the TTL
Tick ==
    /\ ticks < MaxTicks
    /\ \E d \in {1, TTL - 1} : now' = now + d
    /\ ticks' = ticks + 1
    /\ lastOp' = OpRecord("tick", <<>>, None, 0)
    /\ UNCHANGED <<cache, lastSet, mergeVars, dedupVars, loadVars, cleanVars>>

Set ==
    \E pair \in CachePairs,
       v \in {[config |-> [EmptyConfig EXCEPT !.targets = Some(<<w>>)], filepath |-> None] :
                 w \in Words} :
        LET key == getCacheKey(pair[1], pair[2]) IN
        /\ cache' = cacheAfterSet(cache, now, pair[1], v, pair[2])
        /\ lastSet' = MapSet(lastSet, key, [config |-> v, at |-> now, hits |-> 0])
        /\ lastOp' = ApiCall("set", pair, key, None, cache)
        /\ UNCHANGED <<now, ticks, mergeVars, dedupVars, loadVars, cleanVars>>

Get ==
    \E pair \in CachePairs :
        /\ cache' = cacheAfterGet(cache, now, pair[1], pair[2])
        /\ lastOp' = ApiCall("get", pair, getCacheKey(pair[1], pair[2]),
                             cacheGet(cache, now, pair[1], pair[2]), cache)
        /\ lastSet' = lastSetAfterGet(lastSet, cache, now, pair[1], pair[2])
        /\ UNCHANGED <<now, ticks, mergeVars, dedupVars, loadVars, cleanVars>>

Invalidate ==
    \E pair \in CachePairs :
        LET key == getCacheKey(pair[1], pair[2]) IN
        /\ cache' = cacheAfterInvalidate(cache, pair[1], pair[2])
        /\ lastSet' = MapDelete(lastSet, key)
        /\ lastOp' = ApiCall("invalidate", pair, key, None, cache)
        /\ UNCHANGED <<now, ticks, mergeVars, dedupVars, loadVars, cleanVars>>

Clear ==
    /\ cache' = EmptyMap
    /\ lastSet' = EmptyMap
    /\ lastOp' = OpRecord("clear", <<>>, None, 0)
    /\ UNCHANGED <<now, ticks, mergeVars, dedupVars, loadVars, cleanVars>>

Cleanup ==
    /\ cache' = cacheAfterCleanup(cache, now)
    /\ lastOp' = ApiCall("cleanup", <<>>, <<>>, None, cache)
    /\ UNCHANGED <<now, ticks, lastSet, mergeVars, dedupVars, loadVars, cleanVars>>

Stats ==
    /\ cache' = cacheAfterCleanup(cache, now)
    /\ lastOp' = ApiCall("stats", <<>>, <<>>, Some(cacheStats(cache')), cache)
    /\ UNCHANGED <<now, ticks, lastSet, mergeVars, dedupVars, loadVars, cleanVars>>

NextCache == Tick \/ Set \/ Get \/ Invalidate \/ Clear \/ Cleanup \/ Stats

SpecCache == InitCacheApi /\ [][NextCache]_vars

-----------------------------------------------------------------------------
(* Specifications of loadConfig over bounded sets of configuration files *)

HomeDir == <<"/", "h">>
ProjectRoot == <<"/", "p">>
GlobalPath == resolve(HomeDir, <<"g">>)
WorkspacePath == resolve(ProjectRoot, RcName)
PackagePath == resolve(ProjectRoot, PackageJson)
FileA == resolve(HomeDir, <<"a">>)
FileB == resolve(HomeDir, <<"b">>)
FileC == resolve(HomeDir, <<"c">>)

\* every string a file writes is the number of that file
FileWord(path) ==
    CASE path = GlobalPath -> 1
      [] path = WorkspacePath -> 2
      [] path = PackagePath -> 3
      [] path = FileA -> 4
      [] path = FileB -> 5
      [] OTHER -> 6

LeafFields == {"targets", "ignore", "preClean", "postClean"}

\* the configuration of file `path` that defines the leaf fields in `shape`
\* and has `extends` as given
ShapedConfig(path, shape, extends) ==
    LET w == FileWord(path) IN
    [targets |-> IF "targets" \in shape THEN Some(<<w>>) ELSE None,
     ignore  |-> IF "ignore" \in shape THEN Some(<<w>>) ELSE None,
     extends |-> extends,
     hooks   |-> IF shape \cap {"preClean", "postClean"} = {} THEN None
                 ELSE Some([preClean  |-> IF "preClean" \in shape THEN Some(w) ELSE None,
                            postClean |-> IF "postClean" \in shape THEN Some(w) ELSE None])]

SourceShapes == {{}, {"targets", "preClean"}, {"ignore", "postClean"}, LeafFields}
PoolShapes == {LeafFields, {"ignore", "postClean"}}

\* the values of `extends` over the entries in refs: undefined, one string, or an
\* array of at most n entries
ExtendsChoices(refs, n) ==
    {None} \cup {Some(ExtendsString(r)) : r \in refs}
           \cup {Some(ExtendsArray(l)) : l \in SeqUpTo(refs, n) \ {<<>>}}

\* what may be at a path: nothing (None), or a file of one of the statuses with
\* one of the configurations
FileChoices(path, statuses, shapes, extendsChoices) ==
    {None} \cup {Some([status |-> st, config |-> EmptyConfig]) : st \in statuses}
           \cup {Some(FileOk(ShapedConfig(path, sh, e))) : sh \in shapes, e \in extendsChoices}

\* the file system that holds the chosen files
RECURSIVE MakeFs(_, _)
MakeFs(pathSeq, choiceSeq) ==
    IF pathSeq = <<>> THEN EmptyMap
    ELSE LET others == MakeFs(Tail(pathSeq), Tail(choiceSeq)) IN
         IF Head(choiceSeq) = None THEN others
         ELSE MapSet(others, Head(pathSeq), Head(choiceSeq)[1])

InitLoadCommon ==
    /\ InitMergeIdle /\ InitDedupIdle /\ InitCache /\ InitCleanIdle
    /\ call = [c \in {1} |-> IdleCall]

\* three sources of every status and shape, each extending nothing or the one
\* file FileA, which may be missing, unloadable, invalid, plain or extend itself
InitLoad ==
    /\ InitLoadCommon
    /\ loadsLeft = MaxLoads
    /\ \E g \in FileChoices(GlobalPath, {"invalid", "unloadable"}, SourceShapes,
                            {None, Some(ExtendsString(<<"a">>))}),
          w \in FileChoices(WorkspacePath, {"invalid", "empty"}, SourceShapes,
                            {None, Some(ExtendsString(<<".", ".", "/", "h", "/", "a">>))}),
          p \in FileChoices(PackagePath, {"invalid", "empty"}, SourceShapes,
                            {None, Some(ExtendsArray(<<FileA>>))}),
          a \in FileChoices(FileA, {"invalid", "unloadable"}, {LeafFields},
                            {None, Some(ExtendsArray(<<<<"a">>>>))}) :
          fs = MakeFs(<<GlobalPath, WorkspacePath, PackagePath, FileA>>, <<g, w, p, a>>)

\* a valid global configuration of every shape over the extends graphs on FileA
\* and FileB, each of which may be missing, unloadable, invalid or valid; the
\* global file and FileA extend up to MaxExtends entries, FileB at most one;
\* FileA may instead extend FileC, which is missing or defines every field
InitExtends ==
    /\ InitLoadCommon
    /\ loadsLeft = 1
    /\ \E g \in FileChoices(GlobalPath, {}, SourceShapes,
                            ExtendsChoices({<<"a">>, <<"b">>}, MaxExtends)) \ {None},
          a \in FileChoices(FileA, {"invalid", "unloadable"}, PoolShapes,
                            ExtendsChoices({<<"a">>, <<"b">>}, MaxExtends)
                                \cup {Some(ExtendsString(<<"c">>))}),
          b \in FileChoices(FileB, {"invalid", "unloadable"}, PoolShapes,
                            ExtendsChoices({<<"a">>, <<"b">>}, 1)),
          k \in FileChoices(FileC, {}, {LeafFields}, {None}) :
          fs = MakeFs(<<GlobalPath, FileA, FileB, FileC>>, <<g, a, b, k>>)

\* the effect of an invocation's step on the cache history
lastSetAfterStep(ls, t, c) ==
    IF c.pc = "done"
    THEN MapSet(ls, getCacheKey(c.projectRoot, c.globalConfigPath),
                [config |-> c.result[1], at |-> t, hits |-> 0])
    ELSE ls

lastOpAfterStep(op, c) ==
    IF c.pc = "done"
    THEN OpRecord("set", getCacheKey(c.projectRoot, c.globalConfigPath), None, 0)
    ELSE op

\* an invocation's step that may end it: the step and, when it ends well, the store
StepTo(c, next) ==
    /\ call' = [call EXCEPT ![c] = next]
    /\ cache' = cacheAfterStep(cache, now, next)
    /\ lastSet' = lastSetAfterStep(lastSet, now, next)
    /\ lastOp' = lastOpAfterStep(lastOp, next)
    /\ UNCHANGED <<now, ticks, fs, loadsLeft, mergeVars, dedupVars, cleanVars>>

LoadStart ==
    \E c \in DOMAIN call,
       o \in {[projectRoot |-> ProjectRoot, globalConfigPath |-> g] : g \in {None, Some(GlobalPath)}} :
        /\ call[c].pc \in {"idle", "done", "failed"}
        /\ loadsLeft > 0
        /\ loadsLeft' = loadsLeft - 1
        /\ call' = [call EXCEPT ![c] =
                        loadStart(call[c], cache, now, o.projectRoot, o.globalConfigPath)]
        /\ cache' = cacheAfterGet(cache, now, o.projectRoot, o.globalConfigPath)
        /\ lastOp' = OpRecord("get", getCacheKey(o.projectRoot, o.globalConfigPath),
                              cacheGet(cache, now, o.projectRoot, o.globalConfigPath), 0)
        /\ lastSet' = lastSetAfterGet(lastSet, cache, now, o.projectRoot, o.globalConfigPath)
        /\ UNCHANGED <<now, ticks, fs, mergeVars, dedupVars, cleanVars>>

LoadGlobal ==
    \E c \in DOMAIN call :
        /\ call[c].pc = "global"
        /\ \E next \in {loadGlobal(call[c], fs)} : StepTo(c, next)

LoadWorkspace ==
    \E c \in DOMAIN call :
        /\ call[c].pc = "workspace"
        /\ \E next \in {loadWorkspace(call[c], fs)} : StepTo(c, next)

LoadPackage ==
    \E c \in DOMAIN call :
        /\ call[c].pc = "package"
        /\ \E next \in {loadPackage(call[c], fs)} : StepTo(c, next)

ExtendsEnter ==
    \E c \in DOMAIN call :
        /\ call[c].pc = "extends"
        /\ call[c].stack[Len(call[c].stack)].rest # <<>>
        /\ \E next \in {extendsEnter(call[c], fs)} : StepTo(c, next)

ExtendsReturn ==
    \E c \in DOMAIN call :
        /\ call[c].pc = "extends"
        /\ call[c].stack[Len(call[c].stack)].rest = <<>>
        /\ \E next \in {extendsReturn(call[c])} : StepTo(c, next)

NextLoad ==
    LoadStart \/ LoadGlobal \/ LoadWorkspace \/ LoadPackage \/ ExtendsEnter \/ ExtendsReturn

SpecLoad == InitLoad /\ [][NextLoad]_vars

SpecExtends == InitExtends /\ [][NextLoad]_vars

\* every extends graph on FileA and FileB under a global file: the global file
\* and FileA extend up to MaxExtends entries and FileB at most one; FileA may
\* be missing or invalid, FileB missing or unloadable
InitGraph ==
    /\ InitLoadCommon
    /\ loadsLeft = 1
    /\ \E g \in FileChoices(GlobalPath, {}, {{"targets", "preClean"}},
                            ExtendsChoices({<<"a">>, <<"b">>}, MaxExtends)) \ {None},
          a \in FileChoices(FileA, {"invalid"}, {LeafFields},
                            ExtendsChoices({<<"a">>, <<"b">>}, MaxExtends)),
          b \in FileChoices(FileB, {"unloadable"}, {LeafFields},
                            ExtendsChoices({<<"a">>, <<"b">>}, 1)) :
          fs = MakeFs(<<GlobalPath, FileA, FileB>>, <<g, a, b>>)

\* the event loop runs every continuation that is ready: a resolveExtends call
\* whose awaited load has settled goes on at some time
SpecGraphFair == InitGraph /\ [][NextLoad]_vars /\ WF_vars(ExtendsEnter \/ ExtendsReturn)

-----------------------------------------------------------------------------
(* Specification of repeated loadConfig calls while the clock advances and the *)
(* configuration files are rewritten                                           *)

\* what the workspace file may hold: nothing, an invalid object, or a valid
\* configuration that may extend the missing file FileA
WorkspaceChoices ==
    FileChoices(WorkspacePath, {"invalid"}, {{"targets", "preClean"}}, {None})
        \cup {Some(FileOk(ShapedConfig(WorkspacePath, LeafFields, Some(ExtendsString(FileA)))))}

\* what the global file may hold
GlobalChoices == FileChoices(GlobalPath, {}, {{"ignore", "postClean"}}, {None})

InitReload ==
    /\ InitLoadCommon
    /\ loadsLeft = MaxLoads
    /\ \E g \in GlobalChoices, w \in WorkspaceChoices :
          fs = MakeFs(<<GlobalPath, WorkspacePath>>, <<g, w>>)

\* the user rewrites, creates or removes configuration files between two calls
WriteFile ==
    /\ \A c \in DOMAIN call : call[c].pc \in {"idle", "done", "failed"}
    /\ \E g \in GlobalChoices, w \in WorkspaceChoices :
          fs' = MakeFs(<<GlobalPath, WorkspacePath>>, <<g, w>>)
    /\ fs' # fs
    /\ UNCHANGED <<call, loadsLeft, cacheVars, mergeVars, dedupVars, cleanVars>>

NextReload == NextLoad \/ Tick \/ WriteFile

SpecReload == InitReload /\ [][NextReload]_vars

-----------------------------------------------------------------------------
(* Specification of two loadConfig calls whose steps interleave, while the *)
(* clock advances and the configuration files are rewritten                *)

\* what the global and the workspace file may hold: nothing, or a valid
\* configuration that extends (the global one) or may extend (the workspace
\* one) FileA, which defines every field
RaceGlobalChoices ==
    FileChoices(GlobalPath, {}, {{"ignore", "postClean"}}, {Some(ExtendsString(<<"a">>))})
RaceWorkspaceChoices ==
    FileChoices(WorkspacePath, {}, {{"targets", "preClean"}}, {None, Some(ExtendsString(FileA))})
RaceFs(g, w) ==
    MakeFs(<<GlobalPath, WorkspacePath, FileA>>,
           <<g, w, Some(FileOk(ShapedConfig(FileA, LeafFields, None)))>>)

InitRace ==
    /\ InitMergeIdle /\ InitDedupIdle /\ InitCache /\ InitCleanIdle
    /\ call = [c \in {1, 2} |-> IdleCall]
    /\ loadsLeft = 2
    /\ \E g \in RaceGlobalChoices, w \in RaceWorkspaceChoices : fs = RaceFs(g, w)

\* one millisecond passes while an invocation awaits
Tock ==
    /\ ticks < MaxTicks
    /\ \E c \in DOMAIN call : call[c].pc \notin {"idle", "done", "failed"}
    /\ now' = now + 1
    /\ ticks' = ticks + 1
    /\ UNCHANGED <<cache, lastOp, lastSet, mergeVars, dedupVars, loadVars, cleanVars>>

\* the configuration files are rewritten once while an invocation is reading
\* them; every invocation started by then has sourcesChanged set
Rewrite ==
    /\ \E c \in DOMAIN call : call[c].pc \notin {"idle", "done", "failed"}
    /\ \A c \in DOMAIN call : ~call[c].sourcesChanged
    /\ \E g \in RaceGlobalChoices, w \in RaceWorkspaceChoices : fs' = RaceFs(g, w)
    /\ fs' # fs
    /\ call' = [c \in DOMAIN call |->
                  IF call[c].pc = "idle" THEN call[c]
                  ELSE [call[c] EXCEPT !.sourcesChanged = TRUE]]
    /\ UNCHANGED <<loadsLeft, cacheVars, mergeVars, dedupVars, cleanVars>>

NextRace == NextLoad \/ Tock \/ Rewrite

SpecRace == InitRace /\ [][NextRace]_vars

-----------------------------------------------------------------------------
(* Specification of loadConfig when the workspace file may lie in projectRoot *)
(* or in the directory above it                                               *)

\* the workspace file explorer.search finds above projectRoot, and the files an
\* extends entry "a" names from each of the two directories
ParentPath == resolve(dirname(ProjectRoot), RcName)
FileAbove == resolve(dirname(ProjectRoot), <<"a">>)
FileInProject == resolve(ProjectRoot, <<"a">>)

InitSearch ==
    /\ InitLoadCommon
    /\ loadsLeft = 1
    /\ \E w \in FileChoices(WorkspacePath, {"invalid"}, SourceShapes,
                            {None, Some(ExtendsString(<<"a">>))}),
          u \in FileChoices(ParentPath, {"invalid"}, SourceShapes,
                            {None, Some(ExtendsString(<<"a">>)),
                             Some(ExtendsArray(<<<<".", "/", "a">>>>))}),
          x \in FileChoices(FileAbove, {}, {LeafFields}, {None}),
          y \in FileChoices(FileInProject, {}, PoolShapes, {None}) :
          fs = MakeFs(<<WorkspacePath, ParentPath, FileAbove, FileInProject>>, <<w, u, x, y>>)

SpecSearch == InitSearch /\ [][NextLoad]_vars

-----------------------------------------------------------------------------
(* Specification of one cleanProject run over every option, configuration, *)
(* search result, prompt answer and deletion outcome                         *)

\* rm calls that may throw in one run
MaxRmErrors == 4

\* CleanOptions: dryRun, reinstall, force and targets
CleanOptions ==
    [dryRun : BOOLEAN, reinstall : BOOLEAN, force : BOOLEAN, targets : {None, Some(<<9>>)}]

\* what the workspace file holds: nothing, an invalid object, or a valid
\* configuration with or without targets and hooks
CleanWorkspaceChoices ==
    FileChoices(WorkspacePath, {"invalid"}, {{"ignore"}, LeafFields}, {None})

\* what glob returns: no match; one match; a directory, a match inside it and
\* a second directory; six separate matches
GlobResults ==
    {<<>>,
     <<<<"a">>>>,
     <<<<"a">>, <<"a", "/", "b">>, <<"b">>>>,
     <<<<"a">>, <<"b">>, <<"c">>, <<"d">>, <<"e">>, <<"f">>>>}

HookOutcomes == {"ok", "failed"}

\* the rm calls of the run that threw
rmErrors(r) ==
    Cardinality({i \in 1..Len(r.log) : r.log[i].kind = "rm" /\ r.log[i].outcome # "ok"})

InitClean ==
    /\ InitLoadCommon
    /\ loadsLeft = 0
    /\ \E w \in CleanWorkspaceChoices : fs = MakeFs(<<WorkspacePath>>, <<w>>)

\* a step of the run that touches nothing but the run itself
CleanStep(next) ==
    /\ run' = next
    /\ UNCHANGED <<mergeVars, dedupVars, cacheVars, loadVars>>

CleanStart ==
    \E o \in CleanOptions :
        LET started == loadStart(call[1], cache, now, ProjectRoot, Some(GlobalPath))
            ended == loadToEnd(started, fs)
            stored == started.pc # "done" /\ ended.pc = "done"
        IN /\ run.pc = "idle"
           /\ run' = cleanStart(run, o, ended)
           /\ call' = [call EXCEPT ![1] = ended]
           /\ cache' = cacheAfterLoad(cache, now, started, ended)
           /\ lastSet' = IF stored THEN lastSetAfterStep(lastSet, now, ended)
                         ELSE lastSetAfterGet(lastSet, cache, now, ProjectRoot, Some(GlobalPath))
           /\ lastOp' = IF stored THEN lastOpAfterStep(lastOp, ended)
                         ELSE OpRecord("get", getCacheKey(ProjectRoot, Some(GlobalPath)),
                                       cacheGet(cache, now, ProjectRoot, Some(GlobalPath)), 0)
           /\ UNCHANGED <<now, ticks, fs, loadsLeft, mergeVars, dedupVars>>

CleanPreHook ==
    /\ run.pc = "preClean"
    /\ \E outcome \in HookOutcomes : CleanStep(cleanPreHook(run, outcome))

CleanSearch ==
    /\ run.pc = "search"
    /\ \E pathsToDelete \in GlobResults : CleanStep(cleanSearch(run, pathsToDelete))

CleanSizes ==
    /\ run.pc = "sizes"
    /\ CleanStep(cleanSizes(run))

CleanAnswer ==
    /\ run.pc = "prompt"
    /\ \E confirm \in BOOLEAN : CleanStep(cleanAnswer(run, confirm))

DeleteAttempt ==
    /\ run.pc = "delete"
    /\ \E i \in attemptable(run), outcome \in {"ok", "permission", "other"} :
          /\ outcome # "ok" => rmErrors(run) < MaxRmErrors
          /\ CleanStep(deleteAttempt(run, i, outcome))

CleanPostHook ==
    /\ run.pc = "postClean"
    /\ \E outcome \in HookOutcomes : CleanStep(cleanPostHook(run, outcome))

CleanReinstall ==
    /\ run.pc = "reinstall"
    /\ \E locks \in {{}, {"yarn.lock", "package-lock.json"}, {"bun.lock", "pnpm-lock.yaml"}},
          outcome \in {"ok", "failed"} :
          CleanStep(cleanReinstall(run, locks, outcome))

NextClean ==
    \/ CleanStart \/ CleanPreHook \/ CleanSearch \/ CleanSizes \/ CleanAnswer
    \/ DeleteAttempt \/ CleanPostHook \/ CleanReinstall

SpecClean == InitClean /\ [][NextClean]_vars

\* every rm call settles, and the event loop then resumes deleteWithRetry
SpecCleanFair == SpecClean /\ WF_vars(DeleteAttempt)

-----------------------------------------------------------------------------
(* Claims about mergeConfigs *)

\* the value of hooks.<f> of a configuration, None when hooks or the sub-field is undefined
HookField(cfg, f) == IF cfg.hooks = None THEN None ELSE cfg.hooks[1][f]

\* C1: mergeConfigs(A, B) takes targets, ignore and extends whole from B when B
\* defines the field and from A otherwise; hooks.preClean and hooks.postClean are
\* each taken from B when B defines that sub-field and from A otherwise; the
\* result has no hooks when neither A nor B has hooks.
C1_MergeFieldwise ==
    mergeResult # None =>
        LET r == mergeResult[1] IN
        /\ \A f \in {"targets", "ignore", "extends"} :
              r[f] = IF mergeOverride[f] # None THEN mergeOverride[f] ELSE mergeBase[f]
        /\ \A f \in {"preClean", "postClean"} :
              HookField(r, f) = IF HookField(mergeOverride, f) # None
                                THEN HookField(mergeOverride, f)
                                ELSE HookField(mergeBase, f)
        /\ (mergeBase.hooks = None /\ mergeOverride.hooks = None) => r.hooks = None

\* both sides define targets with different arrays, and each side defines one hook the
\* other leaves undefined
C1_Witness ==
    /\ mergeResult # None
    /\ mergeBase.targets # None /\ mergeOverride.targets # None
    /\ mergeBase.targets # mergeOverride.targets
    /\ mergeBase.targets[1] # <<>> /\ mergeOverride.targets[1] # <<>>
    /\ HookField(mergeBase, "postClean") # None
    /\ HookField(mergeOverride, "postClean") = None
    /\ HookField(mergeOverride, "preClean") # None

-----------------------------------------------------------------------------
(* Claims about resolveExtends and loadConfig *)

Sources == <<"global", "workspace", "package">>
SourceIndex(s) == CHOOSE i \in 1..3 : Sources[i] = s

\* what source s holds for invocation c, read from the files: the
\* CosmiconfigResult the explorer gives for it, None when it gives none
SourceResult(c, s) ==
    CASE s = "global" ->
            IF c.globalConfigPath # None /\ c.globalConfigPath[1] # <<>>
               /\ existsSync(fs, c.globalConfigPath[1])
            THEN explorerLoad(fs, c.globalConfigPath[1]) ELSE None
      [] s = "workspace" ->
            LET r == explorerSearch(fs, c.projectRoot) IN
            IF r # None /\ r[1].content.status = "empty" THEN None ELSE r
      [] OTHER ->
            LET r == explorerLoad(fs, resolve(c.projectRoot, PackageJson)) IN
            IF r # None /\ r[1].content.status = "empty" THEN None ELSE r

\* "absent", or else the status of the source's own file
SourceStatus(c, s) ==
    IF SourceResult(c, s) = None THEN "absent" ELSE SourceResult(c, s)[1].content.status

\* the source's own (root) configuration and the directory its extends entries
\* are resolved against
SourceRoot(c, s) == SourceResult(c, s)[1].content.config
SourceBase(c, s) ==
    IF s = "global" THEN dirname(c.globalConfigPath[1]) ELSE c.projectRoot

\* the absolute paths the extends entries of a configuration name
EntryPaths(config, cwd) ==
    [i \in 1..Len(extendList(config)) |-> resolve(cwd, extendList(config)[i])]

\* the paths a valid file extends; none for any other path
ChildPaths(path) ==
    IF path \in DOMAIN fs /\ fs[path].status = "ok"
    THEN EntryPaths(fs[path].config, dirname(path)) ELSE <<>>

\* walk the extends graph depth-first in list order from the pending paths:
\* the first path met a second time, None when none is
RECURSIVE FirstRevisit(_, _)
FirstRevisit(pending, seen) ==
    IF pending = <<>> THEN None
    ELSE IF Head(pending) \in seen THEN Some(Head(pending))
    ELSE FirstRevisit(ChildPaths(Head(pending)) \o Tail(pending), seen \cup {Head(pending)})

\* every path that can be reached from the pending ones through extends
RECURSIVE ReachableFrom(_, _)
ReachableFrom(pending, seen) ==
    IF pending = <<>> THEN seen
    ELSE IF Head(pending) \in seen THEN ReachableFrom(Tail(pending), seen)
    ELSE ReachableFrom(ChildPaths(Head(pending)) \o Tail(pending), seen \cup {Head(pending)})

ChainStart(c, s) == EntryPaths(SourceRoot(c, s), SourceBase(c, s))
ChainFiles(c, s) == ReachableFrom(ChainStart(c, s), {})
ChainRevisit(c, s) == FirstRevisit(ChainStart(c, s), {})
ChainAllValid(c, s) == \A q \in ChainFiles(c, s) : q \in DOMAIN fs /\ fs[q].status = "ok"

\* the invocation ended after reading the sources (not from the cache)
Ended(c) == c.pc \in {"done", "failed"} /\ ~c.fromCache

\* the invocation did not fail in a source that is consulted before s
Reached(c, s) == c.pc = "failed" => SourceIndex(c.error[1].source) >= SourceIndex(s)

\* the resolved configuration the invocation holds for source s, None when it holds none
Candidate(c, s) ==
    LET at == {i \in 1..Len(c.origins) : c.origins[i] = s} IN
    IF at = {} THEN None ELSE Some(c.configs[CHOOSE i \in at : TRUE].config)

\* the value of a field: targets, ignore, extends, hooks.preClean or hooks.postClean
AllFields == LeafFields \cup {"extends"}
Leaf(config, f) ==
    IF f \in {"targets", "ignore", "extends"} THEN config[f] ELSE HookField(config, f)

\* the value of leaf field f in the first of the candidates, in the order given,
\* that defines it
RECURSIVE FirstDefined(_, _)
FirstDefined(candidates, f) ==
    IF candidates = <<>> THEN None
    ELSE IF Head(candidates) # None /\ Leaf(Head(candidates)[1], f) # None
         THEN Leaf(Head(candidates)[1], f)
         ELSE FirstDefined(Tail(candidates), f)

\* C2: each field of the configuration loadConfig returns is the value of the
\* highest-precedence source that defines it, package manifest over workspace
\* over global, for every combination of present and absent sources; a source
\* that extends nothing contributes its own configuration.
C2_SourcePrecedence ==
    \A c \in DOMAIN call :
        (Ended(call[c]) /\ call[c].pc = "done") =>
            LET r == call[c].result[1].config
                byPrecedence == <<Candidate(call[c], "package"), Candidate(call[c], "workspace"),
                                  Candidate(call[c], "global")>>
            IN /\ \A f \in AllFields : Leaf(r, f) = FirstDefined(byPrecedence, f)
               /\ \A i \in 1..3 :
                    /\ (Candidate(call[c], Sources[i]) # None)
                           <=> (SourceStatus(call[c], Sources[i]) = "ok")
                    /\ (SourceStatus(call[c], Sources[i]) = "ok"
                        /\ SourceRoot(call[c], Sources[i]).extends = None)
                           => Candidate(call[c], Sources[i]) = Some(SourceRoot(call[c], Sources[i]))

\* the three sources are present; ignore is set by workspace and global only and
\* comes from workspace, targets is set by all three and comes from the manifest
C2_Witness ==
    \E c \in DOMAIN call :
        /\ Ended(call[c]) /\ call[c].pc = "done"
        /\ \A i \in 1..3 : SourceStatus(call[c], Sources[i]) = "ok"
        /\ SourceRoot(call[c], "package").ignore = None
        /\ SourceRoot(call[c], "workspace").ignore # None
        /\ SourceRoot(call[c], "global").ignore # None
        /\ call[c].result[1].config.ignore = SourceRoot(call[c], "workspace").ignore
        /\ SourceRoot(call[c], "global").targets # None
        /\ SourceRoot(call[c], "workspace").targets # None
        /\ call[c].result[1].config.targets = SourceRoot(call[c], "package").targets
        /\ call[c].result[1].config.targets # None

\* C3: for a source whose extends chain never meets a path twice and whose files
\* all exist and validate, resolveExtends returns a configuration in which every
\* field the root configuration defines has the root's value.
C3_RootFieldsWin ==
    \A c \in DOMAIN call : \A i \in 1..3 :
        LET s == Sources[i] IN
        (Ended(call[c]) /\ Reached(call[c], s) /\ SourceStatus(call[c], s) = "ok"
         /\ ChainAllValid(call[c], s) /\ ChainRevisit(call[c], s) = None) =>
            /\ call[c].pc = "failed" => call[c].error[1].source # s
            /\ Candidate(call[c], s) # None
            /\ \A f \in AllFields :
                  Leaf(SourceRoot(call[c], s), f) # None =>
                      Leaf(Candidate(call[c], s)[1], f) = Leaf(SourceRoot(call[c], s), f)

\* the global configuration defines targets and extends FileA, which extends
\* FileB; both define targets too, and the ignore the root lacks is inherited
C3_Witness ==
    \E c \in DOMAIN call :
        /\ call[c].pc = "done" /\ ~call[c].fromCache
        /\ SourceStatus(call[c], "global") = "ok"
        /\ ChainStart(call[c], "global") = <<FileA>>
        /\ ChildPaths(FileA) = <<FileB>>
        /\ ChildPaths(FileB) = <<>>
        /\ FileB \in DOMAIN fs
        /\ fs[FileA].config.targets # None /\ fs[FileB].config.targets # None
        /\ SourceRoot(call[c], "global").targets # None
        /\ SourceRoot(call[c], "global").ignore = None
        /\ Candidate(call[c], "global")[1].targets = SourceRoot(call[c], "global").targets
        /\ Candidate(call[c], "global")[1].ignore = fs[FileA].config.ignore
        /\ fs[FileA].config.ignore # None

\* C4: when the extends chain of a source meets a path a second time, all files
\* on the chain existing and valid, resolveExtends fails with the cycle error
\* naming that path, loadConfig fails with it, and no configuration is returned.
C4_RevisitFailsWithCycle ==
    \A c \in DOMAIN call : \A i \in 1..3 :
        LET s == Sources[i] IN
        ((call[c].pc \in {"done", "failed"} \/ Candidate(call[c], s) # None)
         /\ ~call[c].fromCache /\ SourceStatus(call[c], s) = "ok"
         /\ ChainAllValid(call[c], s) /\ ChainRevisit(call[c], s) # None) =>
            /\ Candidate(call[c], s) = None
            /\ call[c].pc # "done"
            /\ (call[c].pc = "failed" /\ Reached(call[c], s)) =>
                  /\ call[c].result = None
                  /\ call[c].error = Some([kind |-> "cycle", path |-> ChainRevisit(call[c], s)[1],
                                            source |-> s])

\* FileA extends FileB and FileB extends FileA: the invocation failed naming FileA
C4_Witness ==
    \E c \in DOMAIN call :
        /\ call[c].pc = "failed"
        /\ ChainStart(call[c], "global") = <<FileA>>
        /\ ChildPaths(FileA) = <<FileB>>
        /\ ChildPaths(FileB) = <<FileA>>
        /\ call[c].error[1].kind = "cycle"
        /\ call[c].error[1].path = FileA
        /\ call[c].visited = {FileA, FileB}

\* the source whose resolveExtends call the invocation made last
LastSource(c) ==
    IF c.pc = "failed" THEN c.error[1].source
    ELSE IF c.origins = <<>> THEN "none" ELSE c.origins[Len(c.origins)]

\* the traversal with one set for all branches: the paths seen when it stops,
\* and the path met a second time when that is what stops it; a file that is
\* missing or not valid stops it as well
RECURSIVE Walk(_, _)
Walk(pending, seen) ==
    IF pending = <<>> THEN [seen |-> seen, revisit |-> None]
    ELSE LET p == Head(pending) IN
         IF p \in seen THEN [seen |-> seen, revisit |-> Some(p)]
         ELSE IF ~(p \in DOMAIN fs /\ fs[p].status = "ok")
              THEN [seen |-> seen \cup {p}, revisit |-> None]
              ELSE Walk(ChildPaths(p) \o Tail(pending), seen \cup {p})

\* C21: within one top-level resolveExtends call one visited set serves every
\* branch: no path is given to the loader twice, every loaded path is in the
\* set, the set at the end is the set of paths a traversal with one shared set
\* meets, and the call fails with the cycle error exactly when that traversal
\* meets a path a second time (cycle, diamond or repeated entry), naming it.
C21_SharedVisitedSet ==
    \A c \in DOMAIN call :
        LET k == call[c]
            s == LastSource(k)
        IN /\ \A i, j \in 1..Len(k.loads) : i # j => k.loads[i] # k.loads[j]
           /\ \A i \in 1..Len(k.loads) : k.loads[i] \in k.visited
           /\ (Ended(k) /\ s # "none" /\ SourceStatus(k, s) = "ok") =>
                 LET w == Walk(ChainStart(k, s), {}) IN
                 /\ k.visited = w.seen
                 /\ (w.revisit # None) <=> (k.pc = "failed" /\ k.error[1].kind = "cycle")
                 /\ w.revisit # None => k.error[1].path = w.revisit[1]

\* a diamond without a cycle: the global file extends FileA and FileB, and
\* FileA extends FileB, which extends nothing; FileB is met again as the
\* sibling of FileA and the call fails naming it, each file loaded once
C21_Witness ==
    \E c \in DOMAIN call :
        /\ call[c].pc = "failed"
        /\ ChainStart(call[c], "global") = <<FileA, FileB>>
        /\ ChildPaths(FileA) = <<FileB>>
        /\ ChildPaths(FileB) = <<>>
        /\ call[c].error[1].kind = "cycle"
        /\ call[c].error[1].path = FileB
        /\ call[c].loads = <<FileA, FileB>>
        /\ call[c].visited = {FileA, FileB}

\* C23: resolveExtends terminates on every set of files and every extends graph,
\* cyclic or not: an invocation that is resolving a source's extends leaves
\* that resolution at some time, with the candidate pushed or with an error;
\* on the way every loaded file added its own distinct path to the visited
\* set, and the recursion is no deeper than the files loaded.
C23_ResolveExtendsTerminates ==
    /\ [](\A c \in DOMAIN call :
            /\ Len(call[c].loads) <= Cardinality(call[c].visited)
            /\ Cardinality(call[c].visited) <= Len(call[c].loads) + 1
            /\ Len(call[c].stack) <= Len(call[c].loads) + 1)
    /\ \A c \in {1} : (call[c].pc = "extends") ~> (call[c].pc \in {"workspace", "failed"})

\* FileA and FileB extend each other and the resolution ended, with both visited
C23_Witness ==
    /\ call[1].pc = "failed"
    /\ ChainStart(call[1], "global") = <<FileB>>
    /\ ChildPaths(FileB) = <<FileA>>
    /\ ChildPaths(FileA) = <<FileB, FileA>>
    /\ call[1].loads = <<FileB, FileA>>
    /\ Len(call[1].stack) = 0

\* C22: every extends entry is resolved relative to the directory of the file
\* that defines it: the paths a source's resolveExtends call visits are those
\* of the traversal that starts from the source's entries resolved against the
\* directory of the source's own file (the global file, the workspace file the
\* search found, package.json) and resolves each file's entries against that
\* file's directory.
C22_ExtendsRelativeToDefiningFile ==
    \A c \in DOMAIN call :
        LET k == call[c]
            s == LastSource(k)
        IN (Ended(k) /\ s # "none" /\ SourceStatus(k, s) = "ok") =>
              k.visited = Walk(EntryPaths(SourceRoot(k, s),
                                          dirname(SourceResult(k, s)[1].filepath)), {}).seen

\* a source's own file fails validation, or a file its extends chain can reach
\* is missing, unloadable or invalid
SomeSourceFails(c) ==
    \E i \in 1..3 :
        \/ SourceStatus(c, Sources[i]) = "invalid"
        \/ SourceStatus(c, Sources[i]) = "ok" /\ ~ChainAllValid(c, Sources[i])

\* C5: when a source fails validation, or an extends target is missing, cannot
\* be loaded or fails validation, loadConfig fails with an error, returns no
\* configuration, and the cache gains no entry and no entry's value is replaced.
C5_FailureStoresNothing ==
    \A c \in DOMAIN call :
        (Ended(call[c]) /\ SomeSourceFails(call[c])) =>
            /\ call[c].pc = "failed"
            /\ call[c].error # None
            /\ call[c].result = None
            /\ DOMAIN cache \subseteq DOMAIN call[c].cacheBefore
            /\ \A k \in DOMAIN cache : cache[k] = call[c].cacheBefore[k]

\* an earlier invocation without the global file stored its result; this one read
\* the global file, whose extends target is missing, and failed
C5_Witness ==
    \E c \in DOMAIN call :
        /\ call[c].pc = "failed"
        /\ call[c].error[1].kind = "notFound"
        /\ call[c].error[1].source = "global"
        /\ DOMAIN call[c].cacheBefore # {}
        /\ cache = call[c].cacheBefore

-----------------------------------------------------------------------------
(* Claims about deduplicatePaths *)

\* p lies under directory k: p starts with k followed by the separator
NestedUnder(p, k) == startsWith(p, k \o <<"/">>)

NormalizedInputs == {normalizePath(paths[i]) : i \in 1..Len(paths)}
Returned == {deduped[1][j] : j \in 1..Len(deduped[1])}

\* C6: the returned list has no two equal entries and no entry nested under
\* another returned entry.
C6_NoDuplicateNoNested ==
    deduped # None =>
        \A i, j \in 1..Len(deduped[1]) :
            i # j => /\ deduped[1][i] # deduped[1][j]
                     /\ ~NestedUnder(deduped[1][i], deduped[1][j])

\* the input holds a directory and a path nested under it, the nested one first
C6_Witness ==
    /\ deduped # None
    /\ Len(paths) = 2
    /\ NestedUnder(normalizePath(paths[1]), normalizePath(paths[2]))
    /\ deduped[1] = <<normalizePath(paths[2])>>

\* C7: every normalized input path equals a returned path or is nested under
\* one, every returned path is the normalized form of an input path, and an empty
\* input gives an empty output.
C7_InputsCovered ==
    deduped # None =>
        /\ \A p \in NormalizedInputs : \E k \in Returned : p = k \/ NestedUnder(p, k)
        /\ Returned \subseteq NormalizedInputs
        /\ paths = <<>> => deduped[1] = <<>>

\* a backslash path is returned in normalized form and covers another input
C7_Witness ==
    /\ deduped # None
    /\ Len(paths) = 2
    /\ paths[2] = <<"a", "\\">>
    /\ paths[1] = <<"a", "/">>
    /\ deduped[1] = <<<<"a", "/">>>>

\* C8: the result is exactly the set of normalized inputs that have no proper
\* ancestor among the normalized inputs; a raw string prefix without the
\* separator does not make a path an ancestor.
C8_ExactlyTopLevel ==
    deduped # None =>
        Returned = {p \in NormalizedInputs : ~\E q \in NormalizedInputs : NestedUnder(p, q)}

\* "a" is a raw prefix of "aa" and both are returned
C8_Witness ==
    /\ deduped # None
    /\ paths = <<<<"a", "a">>, <<"a">>>>
    /\ deduped[1] = <<<<"a">>, <<"a", "a">>>>

\* C9: deduplicatePaths(deduplicatePaths(X)) = deduplicatePaths(X), order included.
C9_Idempotent ==
    dedupedAgain # None => dedupedAgain[1] = deduped[1]

\* the second application ran on a result of two paths of equal length that
\* the first application had reordered and normalized
C9_Witness ==
    /\ dedupedAgain # None
    /\ Len(deduped[1]) = 2
    /\ Len(deduped[1][1]) = Len(deduped[1][2])
    /\ deduped[1] # paths

\* the position at which a returned path first occurs in the normalized input
FirstOccurrence(x) ==
    CHOOSE i \in 1..Len(paths) :
        /\ normalizePath(paths[i]) = x
        /\ \A j \in 1..(i - 1) : normalizePath(paths[j]) # x

-----------------------------------------------------------------------------
(* Claims about configCache *)

\* C10: after set(k, v) at time t with no later set, invalidate or clear on k,
\* get(k) at time t' returns v when t' - t < 300000 and returns absent when
\* t' - t >= 300000, and a get on an expired entry removes it from the map.
C10_ExpiresAtTtl ==
    (lastOp.op = "get" /\ lastOp.key \in DOMAIN lastSet) =>
        LET age == now - lastSet[lastOp.key].at IN
        /\ age < 300000 => lastOp.result = Some(lastSet[lastOp.key].config)
        /\ age >= 300000 => (lastOp.result = None /\ lastOp.key \notin DOMAIN cache)

\* a get exactly 300000 ms after the set, which found the entry and returned absent
C10_Witness ==
    /\ lastOp.op = "get"
    /\ lastOp.key \in DOMAIN lastSet
    /\ now - lastSet[lastOp.key].at = 300000
    /\ lastOp.result = None

\* C30: the lifetime of a cache entry is fixed from its last set, not sliding:
\* a get that hits leaves the entry's timestamp (and value) as it was, so every
\* entry carries the time and value of the latest set on its key, and a get
\* returns absent exactly when 300000 ms or more have passed since that set,
\* however often the entry was read; a set on a key that already has an entry
\* replaces the value and restarts the lifetime from the time of that set.
C30_LifetimeFromLastSet ==
    /\ \A key \in DOMAIN cache :
          /\ key \in DOMAIN lastSet
          /\ cache[key].timestamp = lastSet[key].at
          /\ cache[key].config = lastSet[key].config
    /\ (lastOp.op = "get" /\ lastOp.result # None) =>
          cache[lastOp.key] = lastOp.before[lastOp.key]
    /\ (lastOp.op = "get" /\ lastOp.key \in DOMAIN lastSet /\ lastSet[lastOp.key].hits > 0) =>
          (lastOp.result = None <=> now - lastSet[lastOp.key].at >= 300000)
    /\ (lastOp.op = "set" /\ lastOp.key \in DOMAIN lastOp.before) =>
          /\ cache[lastOp.key].timestamp = now
          /\ cacheGet(cache, now + 299999, lastOp.pair[1], lastOp.pair[2])
                = Some(lastSet[lastOp.key].config)
          /\ cacheGet(cache, now + 300000, lastOp.pair[1], lastOp.pair[2]) = None

\* an entry that was read twice after its set, at a later time, and then found
\* expired by a get exactly 300000 ms after the set
C30_Witness ==
    /\ lastOp.op = "get"
    /\ lastOp.key \in DOMAIN lastSet
    /\ lastSet[lastOp.key].hits = 2
    /\ now - lastSet[lastOp.key].at = 300000
    /\ lastOp.result = None
    /\ lastOp.key \in DOMAIN lastOp.before

\* a get that hit an entry set one millisecond or more before
C30_WitnessHit ==
    /\ lastOp.op = "get"
    /\ lastOp.result # None
    /\ cache[lastOp.key].timestamp < now

\* a second set on a key, later than the first and with another value
C30_WitnessSecondSet ==
    /\ lastOp.op = "set"
    /\ lastOp.key \in DOMAIN lastOp.before
    /\ lastOp.before[lastOp.key].timestamp < now
    /\ lastOp.before[lastOp.key].config # cache[lastOp.key].config

-----------------------------------------------------------------------------
(* Claims about the configCache API: SpecCache *)

\* C11: entries of different (projectRoot, globalConfigPath) pairs never
\* collide: after a set on one pair, get returns for every other pair (an
\* absent globalConfigPath differing from every provided one) what it returned
\* before the set.
C11_PairsNeverCollide ==
    lastOp.op = "set" =>
        \A q \in CachePairs :
            q # lastOp.pair =>
                cacheGet(cache, now, q[1], q[2]) = cacheGet(lastOp.before, now, q[1], q[2])

\* C12: invalidate(projectRoot, globalConfigPath) removes exactly the entry of
\* that key: get for the key then returns absent, every other entry keeps its
\* value and timestamp, and invalidating a key with no entry changes nothing.
C12_InvalidateExactlyOne ==
    lastOp.op = "invalidate" =>
        /\ cacheGet(cache, now, lastOp.pair[1], lastOp.pair[2]) = None
        /\ DOMAIN cache = DOMAIN lastOp.before \ {lastOp.key}
        /\ \A k \in DOMAIN cache : cache[k] = lastOp.before[k]
        /\ lastOp.key \notin DOMAIN lastOp.before => cache = lastOp.before

\* an entry was invalidated while another one was stored, and the other remains
C12_Witness ==
    /\ lastOp.op = "invalidate"
    /\ lastOp.key \in DOMAIN lastOp.before
    /\ \E k \in DOMAIN cache : k # lastOp.key /\ cache[k] = lastOp.before[k]

\* the entries of m whose age at time t is below five minutes
LiveKeys(m, t) == {k \in DOMAIN m : t - m[k].timestamp < 300000}

\* C13: cleanup removes every entry whose age is at least the TTL and no entry
\* whose age is below it; stats runs cleanup first, and its size and entries
\* numbers both equal the number of non-expired entries at the time of the call.
C13_CleanupSweepsExpired ==
    lastOp.op \in {"cleanup", "stats"} =>
        /\ DOMAIN cache = LiveKeys(lastOp.before, now)
        /\ \A k \in DOMAIN cache : cache[k] = lastOp.before[k]
        /\ lastOp.op = "stats" =>
              /\ lastOp.result[1].size = Cardinality(LiveKeys(lastOp.before, now))
              /\ lastOp.result[1].entries = lastOp.result[1].size

\* stats was called with one entry exactly five minutes old and one younger
C13_Witness ==
    /\ lastOp.op = "stats"
    /\ \E k \in DOMAIN lastOp.before : now - lastOp.before[k].timestamp = 300000
    /\ \E k \in DOMAIN lastOp.before : now - lastOp.before[k].timestamp < 300000
    /\ lastOp.result[1].size = 1
    /\ Cardinality(DOMAIN lastOp.before) = 2

-----------------------------------------------------------------------------
(* Claims about loadConfig and the cache: SpecReload *)

\* the key of an invocation, and whether a live entry was stored under it when
\* the invocation started
CallKey(c) == c.projectRoot \o <<":", ":">> \o
                  (IF c.globalConfigPath = None THEN <<"n", "o", "n", "e">>
                   ELSE c.globalConfigPath[1])
LiveAtStart(c) ==
    /\ CallKey(c) \in DOMAIN c.cacheBefore
    /\ c.startedAt - c.cacheBefore[CallKey(c)].timestamp < 300000

\* C14: loadConfig consults the cache first.  When a live entry exists for
\* (projectRoot, globalConfigPath) the invocation returns that entry at once
\* and reads no source; after a miss, a successful load is stored under the
\* same pair; so a second call with the same arguments within the TTL returns
\* the result the first one stored, whatever the files hold by then.
C14_CacheConsultedFirst ==
    \A c \in DOMAIN call :
        call[c].pc # "idle" =>
            /\ LiveAtStart(call[c]) =>
                  /\ call[c].pc = "done"
                  /\ call[c].result = Some(call[c].cacheBefore[CallKey(call[c])].config)
                  /\ call[c].result = Some(lastSet[CallKey(call[c])].config)
                  /\ call[c].configs = <<>> /\ call[c].origins = <<>>
            /\ (~LiveAtStart(call[c]) /\ call[c].pc = "done") =>
                  /\ CallKey(call[c]) \in DOMAIN cache
                  /\ cache[CallKey(call[c])].config = call[c].result[1]
                  /\ lastSet[CallKey(call[c])].config = call[c].result[1]

\* a second call returned the stored workspace targets after time had passed
\* and the workspace file had been removed or made invalid
C14_Witness ==
    \E c \in DOMAIN call :
        /\ call[c].pc = "done" /\ LiveAtStart(call[c])
        /\ call[c].startedAt > call[c].cacheBefore[CallKey(call[c])].timestamp
        /\ call[c].result[1].config.targets = Some(<<FileWord(WorkspacePath)>>)
        /\ (WorkspacePath \notin DOMAIN fs \/ fs[WorkspacePath].status = "invalid")

-----------------------------------------------------------------------------
(* Claims about the provenance filepath: SpecLoad *)

\* the filepaths the candidates of an invocation carry, in the order pushed
CandidateFilepaths(c) == [i \in 1..Len(c.configs) |-> c.configs[i].filepath]

\* the last defined value of a sequence of optional values
RECURSIVE LastProvided(_)
LastProvided(fps) ==
    IF fps = <<>> THEN None
    ELSE IF fps[Len(fps)] # None THEN fps[Len(fps)]
    ELSE LastProvided(SubSeq(fps, 1, Len(fps) - 1))

\* C18: the filepath loadConfig returns is that of the last candidate, in the
\* order global, workspace, package manifest, that provided one; a later
\* candidate without a filepath does not erase it, and the filepath is absent
\* when no candidate provided one, in particular when no source was found.
C18_LastFilepathWins ==
    \A c \in DOMAIN call :
        (Ended(call[c]) /\ call[c].pc = "done") =>
            /\ call[c].origins =
                   SelectSeq(Sources, LAMBDA s : SourceStatus(call[c], s) = "ok")
            /\ call[c].result[1].filepath = LastProvided(CandidateFilepaths(call[c]))
            /\ (\A i \in 1..Len(call[c].configs) : call[c].configs[i].filepath = None)
                   => call[c].result[1].filepath = None
            /\ (\A i \in 1..3 : SourceStatus(call[c], Sources[i]) = "absent")
                   => call[c].result[1].filepath = None

\* the global candidate gave its filepath, two later candidates gave none, and
\* the returned filepath is the global one
C18_Witness ==
    \E c \in DOMAIN call :
        /\ Ended(call[c]) /\ call[c].pc = "done"
        /\ Len(call[c].configs) = 3
        /\ call[c].configs[1].filepath = Some(GlobalPath)
        /\ call[c].configs[2].filepath = None /\ call[c].configs[3].filepath = None
        /\ call[c].result[1].filepath = Some(GlobalPath)

\* C19: when no global configuration is loaded and a workspace configuration
\* file is found, the filepath loadConfig returns is the workspace file's path.
C19_WorkspaceFilepathWhenAlone ==
    \A c \in DOMAIN call :
        (/\ Ended(call[c]) /\ call[c].pc = "done"
         /\ SourceStatus(call[c], "global") = "absent"
         /\ SourceStatus(call[c], "workspace") = "ok") =>
            call[c].result[1].filepath = Some(SourceResult(call[c], "workspace")[1].filepath)

-----------------------------------------------------------------------------
(* Claims about the order of extends entries: SpecExtends *)

\* the configurations of the files reached from the pending paths, depth-first
\* in list order: each file, then the files it extends, then the next entry
RECURSIVE PreOrder(_)
PreOrder(pending) ==
    IF pending = <<>> THEN <<>>
    ELSE <<Some(fs[Head(pending)].config)>>
             \o PreOrder(ChildPaths(Head(pending)) \o Tail(pending))

\* C20: for a configuration with extends list [e1, ..., en], every field is
\* taken from the first configuration that defines it in depth-first order:
\* the configuration itself, then e1, then the bases of e1, then e2, and so on.
C20_DepthFirstPrecedence ==
    \A c \in DOMAIN call : \A i \in 1..3 :
        LET s == Sources[i] IN
        ((call[c].pc \in {"done", "failed"} \/ Candidate(call[c], s) # None)
         /\ ~call[c].fromCache /\ Candidate(call[c], s) # None
         /\ SourceStatus(call[c], s) = "ok") =>
            LET order == <<Some(SourceRoot(call[c], s))>> \o PreOrder(ChainStart(call[c], s)) IN
            \A f \in LeafFields :
                Leaf(Candidate(call[c], s)[1], f) = FirstDefined(order, f)

\* the root defines no field and extends [a, b]; a defines ignore only and
\* extends c, which defines targets, as does b: ignore comes from a and
\* targets from c, the base of the earlier entry
C20_Witness ==
    \E c \in DOMAIN call :
        /\ call[c].pc = "done" /\ ~call[c].fromCache
        /\ Candidate(call[c], "global") # None
        /\ \A f \in LeafFields : Leaf(SourceRoot(call[c], "global"), f) = None
        /\ ChainStart(call[c], "global") = <<FileA, FileB>>
        /\ ChildPaths(FileA) = <<FileC>>
        /\ fs[FileA].config.targets = None /\ fs[FileB].config.targets # None
        /\ Candidate(call[c], "global")[1].ignore = fs[FileA].config.ignore
        /\ Candidate(call[c], "global")[1].targets = fs[FileC].config.targets
        /\ fs[FileC].config.targets # fs[FileB].config.targets

-----------------------------------------------------------------------------
(* Claims about overlapping loadConfig calls: SpecRace *)

\* two invocations that both read the sources for one key and ended well; no
\* entry expires in the time covered, so neither started after the other stored
Raced(c, d) ==
    /\ c # d
    /\ call[c].pc = "done" /\ ~call[c].fromCache
    /\ call[d].pc = "done" /\ ~call[d].fromCache
    /\ CallKey(call[c]) = CallKey(call[d])

\* C24: when two loadConfig calls for one key both miss the cache before either
\* stores, both load and both store; the entry left is the one of the store
\* made last, which is the result of one of the two; and when the sources were
\* not rewritten meanwhile the two results are equal and the entry holds them.
C24_LastStoreWins ==
    \A c, d \in DOMAIN call :
        Raced(c, d) =>
            LET key == CallKey(call[c]) IN
            /\ key \in DOMAIN cache /\ key \in DOMAIN lastSet
            /\ cache[key] = [config |-> lastSet[key].config, timestamp |-> lastSet[key].at]
            /\ cache[key].config \in {call[c].result[1], call[d].result[1]}
            /\ (~call[c].sourcesChanged /\ ~call[d].sourcesChanged) =>
                  /\ call[c].result[1] = call[d].result[1]
                  /\ cache[key].config = call[c].result[1]

\* the two calls raced and the files were rewritten between the reads: the
\* results differ, and the entry holds the one stored last, at the later time
C24_Witness ==
    \E c, d \in DOMAIN call :
        /\ Raced(c, d)
        /\ call[c].result[1] # call[d].result[1]
        /\ cache[CallKey(call[c])].config = call[d].result[1]
        /\ cache[CallKey(call[c])].timestamp = now
        /\ now > call[d].startedAt
        /\ call[d].startedAt > call[c].startedAt

\* the two calls raced on unchanged files and returned equal results
C24_WitnessUnchanged ==
    \E c, d \in DOMAIN call :
        /\ Raced(c, d)
        /\ ~call[c].sourcesChanged /\ ~call[d].sourcesChanged
        /\ call[c].result[1].config.targets # None
        /\ cache[CallKey(call[c])].timestamp > call[d].startedAt

\* the invocation as it ends when no other invocation runs: started on the
\* cache it found and run to its end on the files
Alone(k) ==
    loadToEnd(loadStart(IdleCall, k.cacheBefore, k.startedAt, k.projectRoot,
                        k.globalConfigPath), fs)

\* C25: concurrent loadConfig calls do not interfere.  No call fails with the
\* cycle error unless the extends chain of the source it was resolving meets a
\* path twice by itself; a call whose files were not rewritten ends as it
\* would when run alone; and when two calls with different keys have both
\* ended well, the cache holds exactly one entry for each key, with that
\* call's result.
C25_DifferentKeysIndependent ==
    /\ \A c \in DOMAIN call :
          LET k == call[c] IN
          (k.pc \in {"done", "failed"} /\ ~k.sourcesChanged) =>
              /\ (k.pc = "failed" /\ k.error[1].kind = "cycle") =>
                     ChainRevisit(k, k.error[1].source) # None
              /\ k.pc = Alone(k).pc
              /\ k.result = Alone(k).result
              /\ k.error = Alone(k).error
    /\ \A c, d \in DOMAIN call :
          (call[c].pc = "done" /\ call[d].pc = "done"
           /\ CallKey(call[c]) # CallKey(call[d])) =>
              /\ DOMAIN cache = {CallKey(call[c]), CallKey(call[d])}
              /\ cache[CallKey(call[c])].config = call[c].result[1]
              /\ cache[CallKey(call[d])].config = call[d].result[1]

\* two calls with different keys ran at the same time, each resolving an
\* extends entry that names FileA (one of them twice, for the global and for
\* the workspace file); both ended well and the cache holds both results
C25_Witness ==
    \E c, d \in DOMAIN call :
        /\ call[c].pc = "done" /\ call[d].pc = "done"
        /\ ~call[c].fromCache /\ ~call[d].fromCache
        /\ call[c].globalConfigPath = None /\ call[d].globalConfigPath # None
        /\ call[c].origins = <<"workspace">> /\ call[d].origins = <<"global", "workspace">>
        /\ call[c].visited = {FileA} /\ call[d].visited = {FileA}
        /\ call[c].startedAt < cache[CallKey(call[d])].timestamp
        /\ call[d].startedAt < cache[CallKey(call[c])].timestamp
        /\ cache[CallKey(call[c])].config = call[c].result[1]
        /\ cache[CallKey(call[d])].config = call[d].result[1]

-----------------------------------------------------------------------------
(* Claims about cleanProject: SpecClean *)

\* the calls of one kind the run has made, as positions in its log
Calls(kind) == {i \in 1..Len(run.log) : run.log[i].kind = kind}

\* the paths an rm call has deleted
Deleted == {run.log[i].arg : i \in {j \in Calls("rm") : run.log[j].outcome = "ok"}}

\* C15: with dryRun = true cleanProject never calls rm, never shows the
\* confirmation prompt and never runs the reinstall command, whatever the
\* configuration, the matched paths, force and reinstall; the run ends at the
\* dry-run notice once targets were found.
C15_DryRunDeletesNothing ==
    run.dryRun =>
        /\ Calls("rm") = {} /\ Calls("prompts") = {} /\ Calls("install") = {}
        /\ run.pc \notin {"prompt", "delete", "postClean", "reinstall"}
        /\ run.pc = "returned" => run.outcome \in {"nothingToClean", "dryRun"}

\* a forced dry run with reinstall requested found targets and returned
C15_Witness ==
    /\ run.dryRun /\ run.force /\ run.reinstall
    /\ run.pc = "returned" /\ run.outcome = "dryRun"
    /\ Len(run.topLevelPaths) > 1

C16_WitnessDeclined ==
    /\ run.response = Some(FALSE) /\ run.reinstall /\ Calls("rm") = {}

\* C17: the reinstall command runs only when reinstall was requested, the run
\* is not a dry run, the deletion phase was reached and every top-level path
\* was deleted without error; after a failed deletion, with no targets found
\* or after a cancellation it never runs.
C17_ReinstallOnlyAfterCleanDeletion ==
    /\ Calls("install") # {} =>
          /\ run.reinstall /\ ~run.dryRun
          /\ run.summary # None
          /\ run.errorCount = 0 /\ run.errorItems = <<>>
          /\ \A i \in 1..Len(run.topLevelPaths) : run.topLevelPaths[i] \in Deleted
          /\ \A i \in Calls("install") : \A j \in Calls("rm") : j < i
          /\ Cardinality(Calls("install")) = 1
    /\ (run.pc = "returned" /\ run.outcome \in {"nothingToClean", "cancelled", "dryRun"})
          => Calls("install") = {}
    /\ (run.pc = "returned" /\ run.errorCount > 0) => Calls("install") = {}

\* the reinstall ran after a retried permission error ended in a deletion
C17_Witness ==
    /\ Calls("install") # {}
    /\ \E i \in Calls("rm") : run.log[i].outcome = "permission"
    /\ Len(run.topLevelPaths) = 2 /\ run.deletedCount = 2

-----------------------------------------------------------------------------
(* Claims about deleteWithRetry: SpecCleanFair *)

\* the rm calls made on topLevelPaths[i], as positions in the log
RmCalls(i) ==
    {n \in 1..Len(run.log) : run.log[n].kind = "rm" /\ run.log[n].arg = run.topLevelPaths[i]}

\* the error items recorded for topLevelPaths[i]
ErrorItemsOf(i) ==
    Cardinality({n \in 1..Len(run.errorItems) : run.errorItems[n] = run.topLevelPaths[i]})

\* C27: deleteWithRetry calls rm on a path at most 4 times and always finishes;
\* a further call follows only a call that failed with a permission error; the
\* path has failed, with exactly one error item, exactly when its last call
\* failed with another error or was the 4th and failed with a permission
\* error; it has succeeded, with no error item, exactly when its last call
\* succeeded.
C27_DeleteWithRetry ==
    /\ [](\A i \in 1..Len(run.jobs) :
             LET calls == RmCalls(i)
                 last == CHOOSE n \in calls : \A m \in calls : m <= n
             IN /\ Cardinality(calls) <= 4
                /\ \A n \in calls : n # last => run.log[n].outcome = "permission"
                /\ run.jobs[i].done = "ok" <=>
                      (calls # {} /\ run.log[last].outcome = "ok")
                /\ run.jobs[i].done = "failed" <=>
                      (calls # {} /\ (\/ run.log[last].outcome = "other"
                                      \/ /\ run.log[last].outcome = "permission"
                                         /\ Cardinality(calls) = 4))
                /\ ErrorItemsOf(i) = IF run.jobs[i].done = "failed" THEN 1 ELSE 0)
    /\ (run.pc = "delete") ~> (run.pc # "delete")

\* one path failed at its 4th call after four permission errors, another at its
\* first call with another error; each has one error item
C27_Witness ==
    /\ run.pc = "postClean"
    /\ \E i, j \in 1..Len(run.jobs) :
          /\ Cardinality(RmCalls(i)) = 4
          /\ \A n \in RmCalls(i) : run.log[n].outcome = "permission"
          /\ run.jobs[i].done = "failed" /\ ErrorItemsOf(i) = 1
          /\ Cardinality(RmCalls(j)) = 1
          /\ \A n \in RmCalls(j) : run.log[n].outcome = "ok"
          /\ run.jobs[j].done = "ok" /\ ErrorItemsOf(j) = 0

-----------------------------------------------------------------------------
(* Claims about the counts in the summary: SpecClean *)

\* C28: in the summary cleanProject shows, deletedCount + errorCount is the
\* number of top-level paths and the error items are as many as errorCount,
\* after the sequential deletion of more than 5 paths and after the parallel
\* deletion of 5 paths or fewer, however the parallel attempts interleave.
C28_SummaryCountsAddUp ==
    run.summary # None =>
        /\ run.summary[1].deletedCount + run.summary[1].errorCount = Len(run.topLevelPaths)
        /\ Len(run.summary[1].errors) = run.summary[1].errorCount
        /\ run.summary[1].deletedCount =
              Cardinality({i \in 1..Len(run.jobs) : run.jobs[i].done = "ok"})
        /\ run.summary[1].errorCount =
              Cardinality({i \in 1..Len(run.jobs) : run.jobs[i].done = "failed"})

\* the parallel branch: two paths whose attempts interleaved, the first retried
\* after a permission error and deleted, the second failed
C28_Witness ==
    /\ run.summary # None
    /\ Len(run.topLevelPaths) = 2
    /\ \E n \in 1..(Len(run.log) - 2) :
          /\ run.log[n] = Event("rm", run.topLevelPaths[1], "permission")
          /\ run.log[n + 1] = Event("rm", run.topLevelPaths[2], "other")
          /\ run.log[n + 2] = Event("rm", run.topLevelPaths[1], "ok")
    /\ run.summary[1].deletedCount = 1
    /\ run.summary[1].errorCount = 1

\* the sequential branch: six paths, of which two failed
C28_WitnessSequential ==
    /\ run.summary # None
    /\ Len(run.topLevelPaths) = 6
    /\ run.summary[1].deletedCount = 4
    /\ run.summary[1].errorCount = 2

-----------------------------------------------------------------------------
(* Claims about the hooks: SpecClean *)

\* the runs of hook hookName, as positions in the log
HookRuns(hookName) ==
    {n \in 1..Len(run.log) : run.log[n].kind = "hook" /\ run.log[n].arg = hookName}

\* C29: the preClean hook runs before the search and before any deletion, in
\* dry runs and in runs cancelled later as well, and when it fails the run is
\* rejected with nothing searched or deleted; the postClean hook runs only
\* after every deletion has finished and the summary is shown, before the
\* install command, never in a dry run, a cancelled run or a run without
\* targets, and when it fails the run is rejected and nothing is installed.
C29_HooksOrder ==
    /\ \A h \in HookRuns("preClean") :
          /\ \A n \in Calls("glob") \cup Calls("rm") \cup Calls("prompts") : h < n
          /\ run.log[h].outcome = "failed" =>
                /\ run.pc = "rejected" /\ run.outcome = "preClean"
                /\ Calls("glob") = {} /\ Calls("rm") = {} /\ Calls("install") = {}
    /\ (Calls("glob") # {} /\ hookCommand(run.config, "preClean") # None) =>
          \E h \in HookRuns("preClean") : run.log[h].outcome = "ok"
    /\ \A h \in HookRuns("postClean") :
          /\ run.summary # None
          /\ \A i \in 1..Len(run.jobs) : run.jobs[i].done # "no"
          /\ Calls("rm") # {}
          /\ \A n \in Calls("rm") : n < h
          /\ \A n \in Calls("install") : h < n
          /\ ~run.dryRun
          /\ run.outcome \notin {"dryRun", "cancelled", "nothingToClean"}
          /\ run.log[h].outcome = "failed" =>
                /\ run.pc = "rejected" /\ run.outcome = "postClean"
                /\ Calls("install") = {}
    /\ run.outcome \in {"dryRun", "cancelled", "nothingToClean"} => HookRuns("postClean") = {}
    /\ (run.outcome = "finished" /\ hookCommand(run.config, "postClean") # None) =>
          \E h \in HookRuns("postClean") : run.log[h].outcome = "ok"

\* both hooks ran, around two deletions and before the install command
C29_Witness ==
    /\ run.outcome = "finished"
    /\ \E h \in HookRuns("preClean"), g \in Calls("glob"), k \in HookRuns("postClean"),
          n \in Calls("install") :
          /\ h < g /\ g < k /\ k < n
          /\ Cardinality({m \in Calls("rm") : g < m /\ m < k}) = 2

\* the preClean hook ran in a dry run and in a run the user cancelled
C29_WitnessDryRun ==
    /\ run.outcome \in {"dryRun", "cancelled"}
    /\ HookRuns("preClean") # {}

\* the postClean hook failed after the deletions of a run asked to reinstall
C29_WitnessPostFailed ==
    /\ run.pc = "rejected" /\ run.outcome = "postClean"
    /\ run.reinstall /\ run.errorCount = 0
    /\ Calls("rm") # {}

====
